---- MODULE Spec2Model ----
(***************************************************************************)
(* Role-scoped authorization and soft-delete consistency of the course      *)
(* catalog backend (controllers/adminController.js, chatbotController.js,  *)
(* middleware/authMiddleware.js).  The relational tables are the state;    *)
(* every HTTP handler is one operator from (req.user, params, body) and    *)
(* the current tables to a reply and the tables it commits.                 *)
(***************************************************************************)
EXTENDS Integers, FiniteSets, Sequences, TLC

\* ------------------------------------------------------------------ bounds
NumAdmins == 2
NumCarreras == 2
NumMaterias == 2
NumHorarios == 1
NumCorrelatividades == 1

NumSesiones == 2
NumCorrelativas == 2

AdminIds == 1..NumAdmins
CarreraIds == 1..NumCarreras
MateriaIds == 1..NumMaterias
HorarioIds == 1..NumHorarios
CorrelatividadIds == 1..NumCorrelatividades
SesionIds == 1..NumSesiones

\* ------------------------------------------------------------------ values
Absent == "absent"          \* a body field that is undefined
NoId == 0                   \* NULL / missing numeric id (falsy in the handlers)
NoRow == "none"             \* no row with that primary key

Roles == {"Rector", "Coordinador"}
EstadosAdmin == {"activo", "suspendido", "inactivo"}
EstadosCarrera == {"activa", "cerrada", "inactiva"}
Telefonos == {"t0", "t1"}   \* a personal field of administrador
Hashes == {"h0", "h1", "h2", "h3", "h4", "h5", "h6", "h7"}  \* stored bcrypt hashes
Nombres == {"c0", "c1"}     \* descriptive fields of a carrera
EstadosFila == {"activa", "inactiva"}  \* materia, horario, correlatividad

\* No study plan is being generated.
SinPdf ==
    [pc |-> "nada", filas |-> <<>>, plan |-> <<>>, pendientes |-> <<>>, pagina |-> 0,
     currentY |-> 0, bloque |-> <<>>, final |-> <<>>]

VARIABLES
    administrador,  \* table administrador: id -> [rol, estado, elim, telefono, contrasena]
    admin_carrera,  \* table admin_carrera: set of <<id_administrador, id_carrera>>
    carrera,        \* table carrera: id -> [estado, elim, nombre]
    materia,        \* table materia: id -> [id_carrera, estado, elim]
    horario,        \* table horario: id -> [id_materia, estado, elim]
    correlatividad, \* table correlatividad: id -> [principal, requisito, tipo,
                    \*                              estado_requisito, estado, elim]
    resp,           \* the last request served and its reply
    sesion,         \* requests in flight inside a transaction, one per connection
    tokens,         \* the JWT payloads issued by loginUser and not expired
    pdf             \* the study-plan document being laid out by descargarPlanEstudioPDF

vars == <<administrador, admin_carrera, carrera, materia, horario, correlatividad, resp,
          sesion, tokens, pdf>>

\* elim stands for the pair (fecha_eliminacion, id_administrador_eliminacion):
\* every statement of the controllers sets both or clears both; 0 is NULL.

\* The tables as one value, and a handler's reply with the tables it leaves.
DB ==
    [adm |-> administrador, ac |-> admin_carrera, car |-> carrera,
     mat |-> materia, hor |-> horario, cor |-> correlatividad]

Reply(status, reason, rows, d) ==
    [status |-> status, reason |-> reason, rows |-> rows, db |-> d]

\* The reply reaches the client and the tables are what the handler committed.
Serve(op, uid, r) ==
    /\ resp' = [op |-> op, uid |-> uid, status |-> r.status, reason |-> r.reason,
                rows |-> r.rows]
    /\ administrador' = r.db.adm
    /\ admin_carrera' = r.db.ac
    /\ carrera' = r.db.car
    /\ materia' = r.db.mat
    /\ horario' = r.db.hor
    /\ correlatividad' = r.db.cor
    /\ UNCHANGED <<sesion, tokens, pdf>>

\* ------------------------------------------------- identifiers in a request
\* A route parameter is a string.  canon says it is the decimal string of n
\* ("1"); a non-canonical spelling ("01") is a different string that MySQL
\* still coerces to the number n when it is compared with an INT column.
IdParams(ids) == [n : ids, canon : BOOLEAN]

\* String(param) === String(req.user.id): req.user.id is the INT column value.
StringEq(p, id) == p.canon /\ p.n = id

\* WHERE id_administrador = ? with the parameter bound as a string.
SqlMatch(p, id) == p.n = id

\* ------------------------------------------------------------- middleware
Asignadas(a) == {c \in CarreraIds : <<a, c>> \in admin_carrera}

\* req.user as protect builds it; carreras_a_cargo_ids is null for a Rector,
\* written {} here: it is only read under rol = 'Coordinador'.
protect(a) ==
    [id |-> a, id_administrador |-> a,
     rol |-> administrador[a].rol, estado |-> administrador[a].estado,
     carreras_a_cargo_ids |->
        IF administrador[a].rol = "Coordinador" THEN Asignadas(a) ELSE {}]

\* The estado check of protect letting every account through.
protectPasaSiempre(a) == TRUE

protectPasses(a) == administrador[a].estado = "activo"

admin(u) == u.rol = "Rector" \/ u.rol = "Coordinador"

rector(u) == u.rol = "Rector"

\* protect, then the role middleware of the route, then the controller.
Route(a, soloRector, r) ==
    IF ~protectPasses(a)
    THEN Reply(403, "cuenta-no-activa", {}, DB)
    ELSE IF soloRector /\ ~rector(protect(a))
    THEN Reply(403, "se-requiere-rector", {}, DB)
    ELSE IF ~admin(protect(a))
    THEN Reply(403, "se-requiere-admin", {}, DB)
    ELSE r

\* ------------------------------------------------------------ credentials
\* The passwords a request can carry: the one every account starts with, one
\* more that passes the rules, and one for each rule that it alone breaks.
PasswordInicial == "Inicial1!"

Passwords ==
    {"Inicial1!", "Abcdef1!", "Abcde1!", "abcdef1!", "ABCDEF1!", "Abcdefg!",
     "Abcdefg1", "weak"}

\* password.length and the four regular-expression tests, for each of them.
Rasgos(password) ==
    CASE password = "Inicial1!" ->
           [len |-> 9, mayus |-> TRUE, minus |-> TRUE, digito |-> TRUE, especial |-> TRUE]
      [] password = "Abcdef1!" ->
           [len |-> 8, mayus |-> TRUE, minus |-> TRUE, digito |-> TRUE, especial |-> TRUE]
      [] password = "Abcde1!" ->
           [len |-> 7, mayus |-> TRUE, minus |-> TRUE, digito |-> TRUE, especial |-> TRUE]
      [] password = "abcdef1!" ->
           [len |-> 8, mayus |-> FALSE, minus |-> TRUE, digito |-> TRUE, especial |-> TRUE]
      [] password = "ABCDEF1!" ->
           [len |-> 8, mayus |-> TRUE, minus |-> FALSE, digito |-> TRUE, especial |-> TRUE]
      [] password = "Abcdefg!" ->
           [len |-> 8, mayus |-> TRUE, minus |-> TRUE, digito |-> FALSE, especial |-> TRUE]
      [] password = "Abcdefg1" ->
           [len |-> 8, mayus |-> TRUE, minus |-> TRUE, digito |-> TRUE, especial |-> FALSE]
      [] OTHER ->
           [len |-> 4, mayus |-> FALSE, minus |-> TRUE, digito |-> FALSE, especial |-> FALSE]

\* TRUE when validatePasswordRules returns null.
validatePasswordRules(password) ==
    LET r == Rasgos(password) IN
    IF r.len < 8 THEN FALSE
    ELSE IF ~r.mayus THEN FALSE
    ELSE IF ~r.minus THEN FALSE
    ELSE IF ~r.digito THEN FALSE
    ELSE IF ~r.especial THEN FALSE
    ELSE TRUE

\* bcrypt.hash, one hash for each password, and bcrypt.compare.
bcryptHash(password) ==
    CASE password = "Inicial1!" -> "h0"
      [] password = "Abcdef1!" -> "h1"
      [] password = "Abcde1!" -> "h2"
      [] password = "abcdef1!" -> "h3"
      [] password = "ABCDEF1!" -> "h4"
      [] password = "Abcdefg!" -> "h5"
      [] password = "Abcdefg1" -> "h6"
      [] OTHER -> "h7"

bcryptCompare(password, hash) == hash = bcryptHash(password)

\* ------------------------------------------------------------------ tokens
\* jwt.sign: the payload, and the secret that signs it.
generateToken(id_administrador, rol) ==
    [secreto |-> "JWT_SECRET", id_administrador |-> id_administrador, rol |-> rol]

jwtVerify(token, secreto) == token.secreto = secreto

\* req.user built from the token's rol instead of the stored one.
protectSegunToken(token) ==
    [protect(token.id_administrador) EXCEPT !.rol = token.rol]

\* protect on a bearer token: only decoded.id_administrador is used.
protectConToken(token) == protect(token.id_administrador)

\* protect, the role middleware and the controller, for a bearer token.
RutaConToken(token, soloRector, r) ==
    IF ~jwtVerify(token, "JWT_SECRET")
    THEN Reply(401, "token-invalido", {}, DB)
    ELSE IF ~protectPasses(token.id_administrador)
    THEN Reply(403, "cuenta-no-activa", {}, DB)
    ELSE IF soloRector /\ ~rector(protectConToken(token))
    THEN Reply(403, "se-requiere-rector", {}, DB)
    ELSE IF ~admin(protectConToken(token))
    THEN Reply(403, "se-requiere-admin", {}, DB)
    ELSE r

\* identificador is the id of the administrator whose name or email it is,
\* or an id with no row.
loginUser(identificador, contrasena) ==
    IF contrasena = Absent THEN Reply(400, "faltan-campos", {}, DB)
    ELSE IF /\ identificador \in AdminIds
            /\ administrador[identificador].estado # NoRow
            /\ bcryptCompare(contrasena, administrador[identificador].contrasena)
    THEN IF administrador[identificador].estado # "activo"
         THEN Reply(401, "cuenta-no-activa", {}, DB)
         ELSE Reply(200, "ok",
                    {generateToken(identificador, administrador[identificador].rol)}, DB)
    ELSE Reply(401, "credenciales-invalidas", {}, DB)

\* ---------------------------------------------------------- administrador
AdminRow(p) == {a \in AdminIds : SqlMatch(p, a) /\ administrador[a].estado # NoRow}

\* Control de Seguridad 1 of updateUserByAdmin (auto-suspension).
AutoSuspension(u, id, estadoAUsar, currentEstado) ==
    /\ StringEq(id, u.id)
    /\ estadoAUsar \in {"suspendido", "inactivo"}
    /\ estadoAUsar # currentEstado

\* Restriction A never refusing.
CoordinadorAjenoSinControl(u, id) == FALSE

\* Restriction B never refusing.
CoordinadorCampoSinControl(u, body) == FALSE

\* Restrictions A and B of updateUserByAdmin for a Coordinador.
CoordinadorAjeno(u, id) == u.rol = "Coordinador" /\ ~StringEq(id, u.id)

CoordinadorCampoProtegido(u, body) ==
    u.rol = "Coordinador" /\ (body.rol # Absent \/ body.estado # Absent)

\* The SET list of the dynamic UPDATE, applied to the current row.
UpdatedAdmin(u, row, body) ==
    LET r1 == IF body.telefono # Absent
              THEN [row EXCEPT !.telefono = body.telefono] ELSE row
        r2 == IF u.rol = "Rector" /\ body.rol # Absent
              THEN [r1 EXCEPT !.rol = body.rol] ELSE r1
        r3 == IF u.rol = "Rector" /\ body.estado # Absent
              THEN [r2 EXCEPT !.estado = body.estado,
                              !.elim = IF body.estado = "activo" THEN NoId ELSE u.id]
              ELSE r2
        r4 == IF body.newContrasena # Absent
              THEN [r3 EXCEPT !.contrasena = bcryptHash(body.newContrasena)] ELSE r3
    IN r4

NoFields(u, body) ==
    /\ body.telefono = Absent
    /\ body.newContrasena = Absent
    /\ u.rol = "Rector" => (body.rol = Absent /\ body.estado = Absent)

updateUserByAdmin(u, id, body) ==
    IF AdminRow(id) = {} THEN Reply(404, "no-encontrado", {}, DB)
    ELSE
    LET t == id.n
        currentRol == administrador[t].rol
        currentEstado == administrador[t].estado
        estadoAUsar == IF body.estado # Absent THEN body.estado ELSE currentEstado
        rolAUsar == IF body.rol # Absent THEN body.rol ELSE currentRol
        desasignar == rolAUsar = "Coordinador"
                      /\ estadoAUsar \in {"suspendido", "inactivo"}
        ac2 == IF desasignar
               THEN {x \in admin_carrera : x[1] # t} ELSE admin_carrera
    IN
    IF CoordinadorAjeno(u, id)
    THEN Reply(403, "coordinador-solo-propios", {}, DB)
    ELSE IF CoordinadorCampoProtegido(u, body)
    THEN Reply(403, "coordinador-rol-estado", {}, DB)
    ELSE IF AutoSuspension(u, id, estadoAUsar, currentEstado)
    THEN Reply(403, "auto-suspension", {}, DB)
    ELSE IF body.newContrasena # Absent /\ ~validatePasswordRules(body.newContrasena)
    THEN Reply(400, "contrasena-invalida", {}, DB)
    ELSE IF NoFields(u, body)
    THEN Reply(400, "sin-campos", {}, DB)
    ELSE Reply(200, "ok", {t},
               [DB EXCEPT !.adm[t] = UpdatedAdmin(u, administrador[t], body),
                          !.ac = ac2])

\* Control de Seguridad 2 of deleteUserByAdmin (auto-eliminacion).
AutoEliminacion(u, id) == StringEq(id, u.id)

deleteUserByAdmin(u, id) ==
    IF AutoEliminacion(u, id)
    THEN Reply(403, "auto-eliminacion", {}, DB)
    ELSE IF AdminRow(id) = {} THEN Reply(404, "no-encontrado", {}, DB)
    ELSE
    LET t == id.n IN
    IF administrador[t].estado = "inactivo"
    THEN Reply(404, "ya-inactivo", {}, DB)
    ELSE Reply(200, "ok", {t},
               [DB EXCEPT
                  !.adm[t] = [@ EXCEPT !.estado = "inactivo", !.elim = u.id],
                  !.ac = IF administrador[t].rol = "Coordinador"
                         THEN {x \in admin_carrera : x[1] # t}
                         ELSE admin_carrera])

listUsers(u) ==
    Reply(200, "ok",
          {a \in AdminIds : administrador[a].estado \in {"activo", "suspendido"}}, DB)

getUserById(u, id) ==
    IF AdminRow(id) = {} THEN Reply(404, "no-encontrado", {}, DB)
    ELSE Reply(200, "ok", AdminRow(id), DB)

listCoordinadores(u) ==
    Reply(200, "ok",
          {a \in AdminIds : administrador[a].rol = "Coordinador"
                            /\ administrador[a].estado = "activo"}, DB)

\* ---------------------------------------------------------------- carrera
Existe(tabla, i) == i \in DOMAIN tabla /\ tabla[i].estado # NoRow

\* AUTO_INCREMENT: the next unused primary key.
NextId(tabla) ==
    IF \A i \in DOMAIN tabla : tabla[i].estado # NoRow THEN NoId
    ELSE CHOOSE i \in DOMAIN tabla :
            /\ tabla[i].estado = NoRow
            /\ \A j \in DOMAIN tabla : tabla[j].estado = NoRow => i <= j

\* getCarreras without the admin_carrera subquery of the Coordinador branch.
getCarrerasSinSubconsulta(u) ==
    IF u.rol \notin Roles THEN Reply(403, "permisos", {}, DB)
    ELSE Reply(200, "ok", {c \in CarreraIds : carrera[c].estado = "activa"}, DB)

getCarreras(u) ==
    IF u.rol = "Coordinador"
    THEN Reply(200, "ok",
               {c \in CarreraIds : /\ carrera[c].estado = "activa"
                                   /\ <<u.id_administrador, c>> \in admin_carrera}, DB)
    ELSE IF u.rol # "Rector" THEN Reply(403, "permisos", {}, DB)
    ELSE Reply(200, "ok",
               {c \in CarreraIds : carrera[c].estado \in {"activa", "cerrada"}}, DB)

getCarreraById(u, id) ==
    IF ~Existe(carrera, id) THEN Reply(404, "no-encontrada", {}, DB)
    ELSE IF u.rol = "Coordinador" /\ <<u.id_administrador, id>> \notin admin_carrera
    THEN Reply(403, "sin-permisos", {}, DB)
    ELSE Reply(200, "ok", {id}, DB)

\* 1. Restringir a Rector (createCarrera, deleteCarrera).
SoloRector(u) == u.rol # "Rector"

createCarrera(u, body) ==
    IF SoloRector(u) THEN Reply(403, "solo-rector", {}, DB)
    ELSE IF body.nombre = Absent \/ body.id_coordinador = NoId
    THEN Reply(400, "faltan-campos", {}, DB)
    ELSE
    LET nid == NextId(carrera) IN
    Reply(201, "ok", {nid},
          [DB EXCEPT
             !.car[nid] = [estado |-> "activa", elim |-> NoId, nombre |-> body.nombre],
             !.ac = admin_carrera \cup {<<body.id_coordinador, nid>>}])

\* The critical-state check never refusing.
CambioCriticoSinControl(u, estado) == FALSE

\* Only the Rector may close or deactivate (updateCarrera).
CambioCriticoDenegado(u, estado) ==
    estado \in {"cerrada", "inactiva"} /\ u.rol # "Rector"

\* The UPDATE of a career that leaves the audit fields as they are on
\* reactivation.
UpdatedCarreraSinLimpiar(u, row, body) ==
    LET r1 == [row EXCEPT !.nombre = body.nombre] IN
    IF body.estado = Absent THEN r1
    ELSE [r1 EXCEPT !.estado = body.estado,
                    !.elim = IF body.estado = "activa" THEN row.elim
                             ELSE u.id_administrador]

UpdatedCarrera(u, row, body) ==
    LET r1 == [row EXCEPT !.nombre = body.nombre] IN
    IF body.estado = Absent THEN r1
    ELSE [r1 EXCEPT !.estado = body.estado,
                    !.elim = IF body.estado = "activa" THEN NoId
                             ELSE u.id_administrador]

updateCarrera(u, id, body) ==
    IF body.nombre = Absent THEN Reply(400, "faltan-campos", {}, DB)
    ELSE IF body.estado # Absent /\ body.estado \notin EstadosCarrera
    THEN Reply(400, "estado-invalido", {}, DB)
    ELSE IF body.estado # Absent /\ CambioCriticoDenegado(u, body.estado)
    THEN Reply(403, "solo-rector-cierra", {}, DB)
    ELSE IF u.rol = "Coordinador" /\ <<u.id_administrador, id>> \notin admin_carrera
    THEN Reply(403, "no-asignada", {}, DB)
    ELSE IF ~Existe(carrera, id)
    THEN \* the INSERT into admin_carrera breaks the foreign key: rollback
         IF body.id_coordinador # NoId THEN Reply(500, "error", {}, DB)
         ELSE Reply(404, "no-encontrada", {}, DB)
    ELSE
    LET sinAnteriores == {x \in admin_carrera : x[2] # id} IN
    Reply(200, "ok", {id},
          [DB EXCEPT
             !.car[id] = UpdatedCarrera(u, carrera[id], body),
             !.ac = IF body.id_coordinador # NoId
                    THEN sinAnteriores \cup {<<body.id_coordinador, id>>}
                    ELSE sinAnteriores])

deleteCarrera(u, id) ==
    IF SoloRector(u) THEN Reply(403, "solo-rector", {}, DB)
    ELSE IF ~Existe(carrera, id) THEN Reply(404, "no-encontrada", {}, DB)
    ELSE IF carrera[id].estado = "inactiva" THEN Reply(400, "ya-inactiva", {}, DB)
    ELSE Reply(200, "ok", {id},
               [DB EXCEPT
                  !.car[id] = [@ EXCEPT !.estado = "inactiva",
                                        !.elim = u.id_administrador],
                  !.ac = {x \in admin_carrera : x[2] # id}])

\* ---------------------------------------------------------------- materia
\* A body identifier is a JSON number (str = FALSE) or a JSON string.
IdBodies(ids) == [n : ids, str : BOOLEAN]

\* a === b on two body values.
StrictEq(x, y) == x.n = y.n /\ x.str = y.str

\* Verifica si la materia pertenece a las carreras coordinadas por el usuario.
checkMateriaAccess(idMateria, idAdministrador) ==
    \E m \in MateriaIds :
        /\ m = idMateria
        /\ materia[m].estado # NoRow
        /\ <<idAdministrador, materia[m].id_carrera>> \in admin_carrera
        /\ materia[m].estado = "activo"
        /\ administrador[idAdministrador].estado \in {"activo", "suspendido"}

\* The includes() test answering true for any career.
EnCarrerasAsignadasSiempre(u, idCarrera) == TRUE

\* carrerasAsignadas.includes(parseInt(id_carrera))
EnCarrerasAsignadas(u, idCarrera) == idCarrera \in u.carreras_a_cargo_ids

getMateriasAll(u, idCarreraQuery) ==
    IF u.rol = "Coordinador" /\ u.carreras_a_cargo_ids = {}
    THEN Reply(200, "sin-carreras", {}, DB)
    ELSE IF u.rol \notin Roles THEN Reply(403, "rol-no-autorizado", {}, DB)
    ELSE Reply(200, "ok",
               {m \in MateriaIds :
                    /\ materia[m].estado = "activa"
                    /\ u.rol = "Coordinador" => EnCarrerasAsignadas(u, materia[m].id_carrera)
                    /\ idCarreraQuery # NoId => materia[m].id_carrera = idCarreraQuery},
               DB)

getMateriaById(u, id) ==
    IF u.rol = "Coordinador" /\ u.carreras_a_cargo_ids = {}
    THEN Reply(403, "sin-carreras", {}, DB)
    ELSE IF /\ Existe(materia, id)
            /\ materia[id].estado = "activa"
            /\ u.rol = "Coordinador" => EnCarrerasAsignadas(u, materia[id].id_carrera)
    THEN Reply(200, "ok", {id}, DB)
    ELSE Reply(404, "no-encontrada", {}, DB)

\* chatbotController: public, no req.user.
getMateriasPorCarrera(carreraId) ==
    Reply(200, "ok",
          {m \in MateriaIds : materia[m].id_carrera = carreraId
                              /\ materia[m].estado = "activa"}, DB)

createMateria(u, body) ==
    IF u.rol = "Coordinador" /\ ~EnCarrerasAsignadas(u, body.id_carrera)
    THEN Reply(403, "fuera-de-alcance", {}, DB)
    ELSE IF u.rol \notin Roles THEN Reply(403, "rol-no-autorizado", {}, DB)
    ELSE IF ~Existe(carrera, body.id_carrera)
    THEN Reply(400, "carrera-no-existe", {}, DB)
    ELSE
    LET nid == NextId(materia) IN
    Reply(201, "ok", {nid},
          [DB EXCEPT !.mat[nid] = [id_carrera |-> body.id_carrera,
                                   estado |-> "activa", elim |-> NoId]])

updateMateria(u, id, body) ==
    IF u.rol = "Coordinador" /\ u.carreras_a_cargo_ids = {}
    THEN Reply(403, "sin-carreras", {}, DB)
    ELSE IF u.rol = "Coordinador" /\ ~EnCarrerasAsignadas(u, body.id_carrera)
    THEN Reply(403, "fuera-de-alcance", {}, DB)
    ELSE IF u.rol \notin Roles THEN Reply(403, "rol-no-autorizado", {}, DB)
    ELSE IF ~(/\ Existe(materia, id)
              /\ materia[id].estado = "activa"
              /\ u.rol = "Coordinador" => EnCarrerasAsignadas(u, materia[id].id_carrera))
    THEN Reply(404, "no-encontrada", {}, DB)
    ELSE IF ~Existe(carrera, body.id_carrera)
    THEN Reply(400, "carrera-no-existe", {}, DB)
    ELSE Reply(200, "ok", {id}, [DB EXCEPT !.mat[id].id_carrera = body.id_carrera])

\* deleteMateria without the check of the current estado.
deleteMateriaSinChequeo(u, id) ==
    IF ~Existe(materia, id) THEN Reply(404, "no-encontrada", {}, DB)
    ELSE IF u.rol = "Coordinador" /\ ~EnCarrerasAsignadas(u, materia[id].id_carrera)
    THEN Reply(403, "fuera-de-alcance", {}, DB)
    ELSE Reply(200, "ok", {id},
               [DB EXCEPT !.mat[id] = [@ EXCEPT !.estado = "inactiva",
                                                !.elim = u.id_administrador]])

deleteMateria(u, id) ==
    IF ~Existe(materia, id) THEN Reply(404, "no-encontrada", {}, DB)
    ELSE IF materia[id].estado = "inactiva" THEN Reply(400, "ya-inactiva", {}, DB)
    ELSE IF u.rol = "Coordinador" /\ ~EnCarrerasAsignadas(u, materia[id].id_carrera)
    THEN Reply(403, "fuera-de-alcance", {}, DB)
    ELSE IF u.rol \notin Roles THEN Reply(403, "rol-no-autorizado", {}, DB)
    ELSE Reply(200, "ok", {id},
               [DB EXCEPT !.mat[id] = [@ EXCEPT !.estado = "inactiva",
                                                !.elim = u.id_administrador]])

\* ---------------------------------------------------------------- horario
getHorariosPorMateria(u, idMateria) ==
    IF idMateria = NoId THEN Reply(200, "sin-materia", {}, DB)
    ELSE IF u.rol \notin Roles THEN Reply(403, "permisos", {}, DB)
    ELSE Reply(200, "ok",
               {h \in HorarioIds :
                    /\ horario[h].id_materia = idMateria
                    /\ horario[h].estado = "activa"
                    /\ Existe(materia, idMateria)
                    /\ Existe(carrera, materia[idMateria].id_carrera)
                    /\ u.rol = "Coordinador" =>
                         <<u.id_administrador, materia[idMateria].id_carrera>>
                            \in admin_carrera},
               DB)

getHorarioById(u, id) ==
    IF Existe(horario, id) /\ horario[id].estado = "activa"
    THEN Reply(200, "ok", {id}, DB)
    ELSE Reply(404, "no-encontrado", {}, DB)

createHorario(u, body) ==
    IF body.id_materia = NoId THEN Reply(400, "faltan-campos", {}, DB)
    ELSE IF u.rol = "Coordinador" /\ ~checkMateriaAccess(body.id_materia, u.id_administrador)
    THEN Reply(403, "no-coordina", {}, DB)
    ELSE IF u.rol \notin Roles THEN Reply(403, "permisos", {}, DB)
    ELSE IF ~Existe(materia, body.id_materia) THEN Reply(500, "error", {}, DB)
    ELSE
    LET nid == NextId(horario) IN
    Reply(201, "ok", {nid},
          [DB EXCEPT !.hor[nid] = [id_materia |-> body.id_materia,
                                   estado |-> "activa", elim |-> NoId]])

updateHorario(u, id, body) ==
    IF body.id_materia = NoId THEN Reply(400, "faltan-campos", {}, DB)
    ELSE IF u.rol = "Coordinador" /\ ~checkMateriaAccess(body.id_materia, u.id_administrador)
    THEN Reply(403, "no-coordina", {}, DB)
    ELSE IF u.rol \notin Roles THEN Reply(403, "permisos", {}, DB)
    ELSE IF ~(Existe(horario, id) /\ horario[id].estado = "activa")
    THEN Reply(404, "no-encontrado", {}, DB)
    ELSE IF ~Existe(materia, body.id_materia) THEN Reply(500, "error", {}, DB)
    ELSE Reply(200, "ok", {id}, [DB EXCEPT !.hor[id].id_materia = body.id_materia])

deleteHorario(u, id) ==
    IF ~Existe(horario, id) THEN Reply(404, "no-encontrado", {}, DB)
    ELSE IF horario[id].estado = "inactiva" THEN Reply(400, "ya-inactivo", {}, DB)
    ELSE IF u.rol = "Coordinador"
            /\ ~checkMateriaAccess(horario[id].id_materia, u.id_administrador)
    THEN Reply(403, "no-coordina", {}, DB)
    ELSE IF u.rol \notin Roles THEN Reply(403, "permisos", {}, DB)
    ELSE IF horario[id].estado # "activa" THEN Reply(404, "no-encontrado", {}, DB)
    ELSE Reply(200, "ok", {id},
               [DB EXCEPT !.hor[id] = [@ EXCEPT !.estado = "inactiva",
                                                !.elim = u.id_administrador]])

\* --------------------------------------------------------- correlatividad
\* The list filtered on the required subject instead of the principal one.
getCorrelatividadesPorRequisito(u, id) ==
    IF u.rol \notin Roles THEN Reply(403, "permisos", {}, DB)
    ELSE Reply(200, "ok",
               {k \in DOMAIN correlatividad :
                    /\ correlatividad[k].estado = "activa"
                    /\ correlatividad[k].requisito = id}, DB)

getCorrelatividadesPorMateria(u, id) ==
    IF u.rol \notin Roles THEN Reply(403, "permisos", {}, DB)
    ELSE Reply(200, "ok",
               {k \in DOMAIN correlatividad :
                    /\ correlatividad[k].estado = "activa"
                    /\ correlatividad[k].principal = id
                    /\ Existe(materia, correlatividad[k].principal)
                    /\ Existe(materia, correlatividad[k].requisito)
                    /\ u.rol = "Coordinador" =>
                         <<u.id_administrador, materia[id].id_carrera>> \in admin_carrera},
               DB)

getCorrelatividadById(u, id) ==
    IF ~(Existe(correlatividad, id) /\ correlatividad[id].estado = "activa")
    THEN Reply(404, "no-encontrada", {}, DB)
    ELSE IF u.rol = "Coordinador"
            /\ ~checkMateriaAccess(correlatividad[id].principal, u.id_administrador)
    THEN Reply(403, "no-coordina", {}, DB)
    ELSE IF u.rol \notin Roles THEN Reply(403, "permisos", {}, DB)
    ELSE Reply(200, "ok", {id}, DB)

CorrelatividadFila(body, estado, elim) ==
    [principal |-> body.id_materia_principal.n,
     requisito |-> body.id_materia_requisito.n,
     tipo |-> body.tipo, estado_requisito |-> body.estado_requisito,
     estado |-> estado, elim |-> elim]

\* ER_DUP_ENTRY of correlatividad: some other row, active or not, has the same
\* two subjects and the same tipo.  The schema is not part of the sources; the
\* key is the one the handlers' "Esta correlatividad ya existe" branch and the
\* specification's "several edges between the same pair with different kinds"
\* agree on.
Duplicada(body, propia) ==
    \E k \in DOMAIN correlatividad \ {propia} :
        /\ Existe(correlatividad, k)
        /\ correlatividad[k].principal = body.id_materia_principal.n
        /\ correlatividad[k].requisito = body.id_materia_requisito.n
        /\ correlatividad[k].tipo = body.tipo

createCorrelatividad(u, body) ==
    IF StrictEq(body.id_materia_principal, body.id_materia_requisito)
    THEN Reply(400, "consigo-misma", {}, DB)
    ELSE IF u.rol = "Coordinador"
            /\ ~checkMateriaAccess(body.id_materia_principal.n, u.id_administrador)
    THEN Reply(403, "no-coordina", {}, DB)
    ELSE IF u.rol \notin Roles THEN Reply(403, "permisos", {}, DB)
    ELSE IF ~(Existe(materia, body.id_materia_principal.n)
              /\ Existe(materia, body.id_materia_requisito.n))
    THEN Reply(400, "materia-no-existe", {}, DB)
    ELSE IF Duplicada(body, NoId) THEN Reply(400, "ya-existe", {}, DB)
    ELSE
    LET nid == NextId(correlatividad) IN
    Reply(201, "ok", {nid},
          [DB EXCEPT !.cor[nid] = CorrelatividadFila(body, "activa", NoId)])

updateCorrelatividad(u, id, body) ==
    IF StrictEq(body.id_materia_principal, body.id_materia_requisito)
    THEN Reply(400, "consigo-misma", {}, DB)
    ELSE IF u.rol = "Coordinador"
            /\ ~checkMateriaAccess(body.id_materia_principal.n, u.id_administrador)
    THEN Reply(403, "no-coordina", {}, DB)
    ELSE IF u.rol \notin Roles THEN Reply(403, "permisos", {}, DB)
    ELSE IF ~(Existe(correlatividad, id) /\ correlatividad[id].estado = "activa")
    THEN Reply(404, "no-encontrada", {}, DB)
    ELSE IF ~(Existe(materia, body.id_materia_principal.n)
              /\ Existe(materia, body.id_materia_requisito.n))
    THEN Reply(400, "materia-no-existe", {}, DB)
    ELSE IF Duplicada(body, id) THEN Reply(400, "ya-existe", {}, DB)
    ELSE Reply(200, "ok", {id},
               [DB EXCEPT !.cor[id] = CorrelatividadFila(body, "activa", NoId)])

deleteCorrelatividad(u, id) ==
    IF ~Existe(correlatividad, id) THEN Reply(404, "no-encontrada", {}, DB)
    ELSE IF correlatividad[id].estado = "inactiva" THEN Reply(400, "ya-inactiva", {}, DB)
    ELSE IF u.rol = "Coordinador"
            /\ ~checkMateriaAccess(correlatividad[id].principal, u.id_administrador)
    THEN Reply(403, "no-coordina", {}, DB)
    ELSE IF u.rol \notin Roles THEN Reply(403, "permisos", {}, DB)
    ELSE Reply(200, "ok", {id},
               [DB EXCEPT !.cor[id] = [@ EXCEPT !.estado = "inactiva",
                                                !.elim = u.id_administrador]])

\* ------------------------------------------------------------ request sets
\* Every spelling of an existing id, and one id that has no row.
AdminParams == IdParams(AdminIds) \cup {[n |-> NumAdmins + 1, canon |-> TRUE]}

\* Any mix of a personal field, rol and estado; a rejected password alone or
\* with the personal field.
AdminBodies ==
    [telefono : {Absent, "t1"}, rol : {Absent} \cup Roles,
     estado : {Absent} \cup EstadosAdmin, newContrasena : {Absent}]
    \cup [telefono : {Absent, "t1"}, rol : {Absent}, estado : {Absent},
          newContrasena : {"weak"}]

MateriaBodies == [id_carrera : CarreraIds]

HorarioBodies == [id_materia : {NoId} \cup MateriaIds]

\* Both identifiers as JSON numbers.
\* Bodies whose two subject ids are each a number or a numeric string.
CorrelatividadBodiesMixtas ==
    [id_materia_principal : IdBodies(MateriaIds),
     id_materia_requisito : IdBodies(MateriaIds),
     tipo : {"Cursar"}, estado_requisito : {"Regular"}]

\* GET /api/chatbot/info?action=get_correlativas&id=: the rows behind the
\* "Requiere" lines and the "Es requisito de" lines of the message.
getInfoCorrelativas(id) ==
    IF ~(Existe(materia, id) /\ materia[id].estado = "activa")
    THEN [encontrada |-> FALSE, requisitos |-> {}, dependientes |-> {}]
    ELSE [encontrada |-> TRUE,
          requisitos |->
             {k \in DOMAIN correlatividad :
                  /\ correlatividad[k].principal = id
                  /\ correlatividad[k].estado = "activa"
                  /\ Existe(materia, correlatividad[k].requisito)
                  /\ materia[correlatividad[k].requisito].estado = "activa"},
          dependientes |->
             {k \in DOMAIN correlatividad :
                  /\ correlatividad[k].requisito = id
                  /\ correlatividad[k].estado = "activa"
                  /\ Existe(materia, correlatividad[k].principal)
                  /\ materia[correlatividad[k].principal].estado = "activa"}]

\* Bodies of every kind and required status.
CorrelatividadBodiesTipos ==
    [id_materia_principal : [n : MateriaIds, str : {FALSE}],
     id_materia_requisito : [n : MateriaIds, str : {FALSE}],
     tipo : {"Cursar", "Promoción/Rendir"}, estado_requisito : {"Regular", "Aprobada"}]

CorrelatividadBodies ==
    [id_materia_principal : [n : MateriaIds, str : {FALSE}],
     id_materia_requisito : [n : MateriaIds, str : {FALSE}],
     tipo : {"Cursar"}, estado_requisito : {"Regular"}]

CarreraBodiesCrear == [nombre : {Absent, "c0"}, id_coordinador : {NoId} \cup AdminIds]

CarreraBodies ==
    [nombre : {"c0"}, estado : {Absent} \cup EstadosCarrera,
     id_coordinador : {NoId} \cup AdminIds]


\* ------------------------------------------------------------ transactions
\* What a transaction has written and not yet committed: at most one row of
\* administrador, one row of carrera, and rows of admin_carrera deleted and
\* inserted.
SinFilaAdm ==
    [rol |-> "none", estado |-> NoRow, elim |-> NoId, telefono |-> "t0",
     contrasena |-> "h0"]

SinFilaCarrera == [estado |-> NoRow, elim |-> NoId, nombre |-> "c0"]

SinCambios ==
    [admId |-> NoId, adm |-> SinFilaAdm, carId |-> NoId, car |-> SinFilaCarrera,
     acDel |-> {}, acIns |-> {}]

\* The tables d with the writes w applied (COMMIT, or an autocommit statement).
Aplicar(d, w) ==
    [d EXCEPT
       !.adm = IF w.admId # NoId THEN [@ EXCEPT ![w.admId] = w.adm] ELSE @,
       !.car = IF w.carId # NoId THEN [@ EXCEPT ![w.carId] = w.car] ELSE @,
       !.ac = (@ \ w.acDel) \cup w.acIns]

\* The writes w followed by the writes n of one more statement.
Unir(w, n) ==
    [admId |-> IF n.admId # NoId THEN n.admId ELSE w.admId,
     adm |-> IF n.admId # NoId THEN n.adm ELSE w.adm,
     carId |-> IF n.carId # NoId THEN n.carId ELSE w.carId,
     car |-> IF n.carId # NoId THEN n.car ELSE w.car,
     acDel |-> w.acDel \cup n.acDel,
     acIns |-> (w.acIns \ n.acDel) \cup n.acIns]

SinBody == [nombre |-> Absent, estado |-> Absent, id_coordinador |-> NoId]

\* A connection of the pool with no request on it.
Libre ==
    [pc |-> "libre", op |-> "none", uid |-> NoId, rol |-> "none",
     id |-> NoId, body |-> SinBody, w |-> SinCambios, llave |-> NoId,
     llaveAdm |-> NoId, afectadas |-> 0, status |-> 0, reason |-> "none"]

EnCurso(s) == sesion[s].pc \notin {"libre", "fin"}

\* What the statements of session s read: the committed rows and its own writes.
Vista(s) == Aplicar(DB, sesion[s].w)

\* The DELETE of admin_carrera issued on the pool instead of the connection.
FueraDeTransaccion(op, paso) == paso # "DELETE admin_carrera"

\* Every write of the transactional handlers goes through connection.query,
\* inside the transaction; a pool.query would commit at once.
EnTransaccion(op, paso) == TRUE

\* No lock on the carrera key.
SinBloqueo(c, s) == FALSE

\* InnoDB holds the lock of the carrera key touched by INSERT or UPDATE until
\* the transaction ends; another transaction's statement on that key waits.
Bloqueada(c, s) ==
    \E o \in SesionIds \ {s} : EnCurso(o) /\ sesion[o].llave = c

\* The same for the administrador row written by UPDATE administrador.
BloqueadaAdm(t, s) ==
    \E o \in SesionIds \ {s} : EnCurso(o) /\ sesion[o].llaveAdm = t

SetTablas(d) ==
    /\ administrador' = d.adm
    /\ admin_carrera' = d.ac
    /\ carrera' = d.car
    /\ materia' = d.mat
    /\ horario' = d.hor
    /\ correlatividad' = d.cor

\* One statement of session s: its writes n join the transaction, or reach
\* the tables at once when the statement is issued outside it.
Sentencia(s, paso, n, cambiosDeSesion) ==
    IF EnTransaccion(sesion[s].op, paso)
    THEN /\ sesion' = [sesion EXCEPT ![s] = [cambiosDeSesion EXCEPT !.w = Unir(@, n)]]
         /\ SetTablas(DB)
    ELSE /\ sesion' = [sesion EXCEPT ![s] = cambiosDeSesion]
         /\ SetTablas(Aplicar(DB, n))

\* connection.rollback() and the reply, which stays in the session record: the
\* writes of the transaction are dropped.
Rollback(s, status, reason) ==
    /\ sesion' = [sesion EXCEPT ![s] = [Libre EXCEPT !.pc = "fin", !.op = sesion[s].op,
                                                     !.uid = sesion[s].uid,
                                                     !.id = sesion[s].id,
                                                     !.w = sesion[s].w,
                                                     !.status = status, !.reason = reason]]
    /\ SetTablas(DB)
    /\ UNCHANGED <<resp, tokens, pdf>>

\* connection.commit() and the reply.
Commit(s, status, reason) ==
    /\ sesion' = [sesion EXCEPT ![s] = [Libre EXCEPT !.pc = "fin", !.op = sesion[s].op,
                                                     !.status = status, !.reason = reason]]
    /\ SetTablas(Aplicar(DB, sesion[s].w))
    /\ UNCHANGED <<resp, tokens, pdf>>

\* pool.query issued while the request holds its connection: the pool hands
\* it another connection, and queues it while there is none.
ConexionLibre(s) == \E o \in SesionIds \ {s} : ~EnCurso(o)

\* The transaction of session s has ended (tablas is what it left committed)
\* and the handler goes on to the statement pc with the connection still held.
SeguirSinTransaccion(s, tablas, pc) ==
    /\ sesion' = [sesion EXCEPT ![s] = [Libre EXCEPT !.pc = pc, !.op = sesion[s].op,
                                                     !.id = sesion[s].id]]
    /\ SetTablas(tablas)
    /\ UNCHANGED <<resp, tokens, pdf>>

\* The reply and connection.release() of a handler whose transaction has ended.
Terminar(s, status, reason) ==
    /\ sesion' = [sesion EXCEPT ![s] = [Libre EXCEPT !.pc = "fin", !.op = sesion[s].op,
                                                     !.status = status, !.reason = reason]]
    /\ SetTablas(DB)
    /\ UNCHANGED <<resp, tokens, pdf>>

\* The request is answered before beginTransaction, or enters the transaction.
Entrar(s, op, a, id, body, r, dentro, pc) ==
    /\ ~EnCurso(s)
    /\ IF r.reason \in dentro
       THEN /\ sesion' = [sesion EXCEPT ![s] =
                            [Libre EXCEPT !.pc = pc, !.op = op, !.uid = a,
                                          !.rol = administrador[a].rol,
                                          !.id = id, !.body = body]]
       ELSE /\ sesion' = [sesion EXCEPT ![s] =
                            [Libre EXCEPT !.pc = "fin", !.op = op,
                                          !.status = r.status, !.reason = r.reason]]
    /\ SetTablas(DB)
    /\ UNCHANGED <<resp, tokens, pdf>>

\* updateCarrera bodies of the interleaved requests: the career stays as it
\* is or is closed, with or without a coordinator.
CarreraBodiesSesion ==
    [nombre : {"c0"}, estado : {Absent, "cerrada"}, id_coordinador : {NoId} \cup AdminIds]

\* ------------------------------------------------------------------ actions
ReqUpdateUserByAdmin ==
    \E a \in AdminIds, id \in AdminParams, body \in AdminBodies :
        Serve("updateUserByAdmin", a, Route(a, FALSE, updateUserByAdmin(protect(a), id, body)))

ReqDeleteUserByAdmin ==
    \E a \in AdminIds, id \in AdminParams :
        Serve("deleteUserByAdmin", a, Route(a, TRUE, deleteUserByAdmin(protect(a), id)))

ReqListUsers ==
    \E a \in AdminIds : Serve("listUsers", a, Route(a, FALSE, listUsers(protect(a))))

ReqGetUserById ==
    \E a \in AdminIds, id \in AdminParams :
        Serve("getUserById", a, Route(a, FALSE, getUserById(protect(a), id)))

ReqListCoordinadores ==
    \E a \in AdminIds :
        Serve("listCoordinadores", a, Route(a, FALSE, listCoordinadores(protect(a))))

ReqGetCarreras ==
    \E a \in AdminIds : Serve("getCarreras", a, Route(a, FALSE, getCarreras(protect(a))))

ReqGetCarreraById ==
    \E a \in AdminIds, id \in CarreraIds :
        Serve("getCarreraById", a, Route(a, FALSE, getCarreraById(protect(a), id)))

ReqCreateCarrera ==
    \E a \in AdminIds, body \in CarreraBodiesCrear :
        /\ NextId(carrera) # NoId
        /\ Serve("createCarrera", a, Route(a, TRUE, createCarrera(protect(a), body)))

ReqUpdateCarrera ==
    \E a \in AdminIds, id \in CarreraIds, body \in CarreraBodies :
        Serve("updateCarrera", a, Route(a, FALSE, updateCarrera(protect(a), id, body)))

ReqDeleteCarrera ==
    \E a \in AdminIds, id \in CarreraIds :
        Serve("deleteCarrera", a, Route(a, TRUE, deleteCarrera(protect(a), id)))

ReqGetMateriasAll ==
    \E a \in AdminIds, q \in {NoId} \cup CarreraIds :
        Serve("getMateriasAll", a, Route(a, FALSE, getMateriasAll(protect(a), q)))

ReqGetMateriaById ==
    \E a \in AdminIds, id \in MateriaIds :
        Serve("getMateriaById", a, Route(a, FALSE, getMateriaById(protect(a), id)))

ReqGetMateriasPorCarrera ==
    \E c \in CarreraIds : Serve("getMateriasPorCarrera", NoId, getMateriasPorCarrera(c))

ReqCreateMateria ==
    \E a \in AdminIds, body \in MateriaBodies :
        /\ NextId(materia) # NoId
        /\ Serve("createMateria", a, Route(a, FALSE, createMateria(protect(a), body)))

ReqUpdateMateria ==
    \E a \in AdminIds, id \in MateriaIds, body \in MateriaBodies :
        Serve("updateMateria", a, Route(a, FALSE, updateMateria(protect(a), id, body)))

ReqDeleteMateria ==
    \E a \in AdminIds, id \in MateriaIds :
        Serve("deleteMateria", a, Route(a, FALSE, deleteMateria(protect(a), id)))

ReqGetHorariosPorMateria ==
    \E a \in AdminIds, m \in {NoId} \cup MateriaIds :
        Serve("getHorariosPorMateria", a,
              Route(a, FALSE, getHorariosPorMateria(protect(a), m)))

ReqGetHorarioById ==
    \E a \in AdminIds, id \in HorarioIds :
        Serve("getHorarioById", a, Route(a, FALSE, getHorarioById(protect(a), id)))

ReqCreateHorario ==
    \E a \in AdminIds, body \in HorarioBodies :
        /\ NextId(horario) # NoId
        /\ Serve("createHorario", a, Route(a, FALSE, createHorario(protect(a), body)))

ReqUpdateHorario ==
    \E a \in AdminIds, id \in HorarioIds, body \in HorarioBodies :
        Serve("updateHorario", a, Route(a, FALSE, updateHorario(protect(a), id, body)))

ReqDeleteHorario ==
    \E a \in AdminIds, id \in HorarioIds :
        Serve("deleteHorario", a, Route(a, FALSE, deleteHorario(protect(a), id)))

ReqGetCorrelatividadesPorMateria ==
    \E a \in AdminIds, m \in MateriaIds :
        Serve("getCorrelatividadesPorMateria", a,
              Route(a, FALSE, getCorrelatividadesPorMateria(protect(a), m)))

ReqGetCorrelatividadById ==
    \E a \in AdminIds, id \in CorrelatividadIds :
        Serve("getCorrelatividadById", a,
              Route(a, FALSE, getCorrelatividadById(protect(a), id)))

ReqCreateCorrelatividad ==
    \E a \in AdminIds, body \in CorrelatividadBodies :
        /\ NextId(correlatividad) # NoId
        /\ Serve("createCorrelatividad", a,
                 Route(a, FALSE, createCorrelatividad(protect(a), body)))

ReqUpdateCorrelatividad ==
    \E a \in AdminIds, id \in CorrelatividadIds, body \in CorrelatividadBodies :
        Serve("updateCorrelatividad", a,
              Route(a, FALSE, updateCorrelatividad(protect(a), id, body)))

ReqDeleteCorrelatividad ==
    \E a \in AdminIds, id \in CorrelatividadIds :
        Serve("deleteCorrelatividad", a,
              Route(a, FALSE, deleteCorrelatividad(protect(a), id)))

\* ------------------------------------------- deleteUserByAdmin, statement by statement
\* A statement of the driver can throw (lost connection, lock timeout, ...):
\* falla is that outcome; the catch block rolls back and answers 500.
IniciarDeleteUserByAdmin(s) ==
    \E a \in AdminIds, id \in AdminParams :
        Entrar(s, "deleteUserByAdmin", a, id.n, SinBody,
               Route(a, TRUE, deleteUserByAdmin(protect(a), id)),
               {"no-encontrado", "ya-inactivo", "ok"}, "SELECT administrador")

DeleteUserSelect(s) ==
    /\ sesion[s].op = "deleteUserByAdmin" /\ sesion[s].pc = "SELECT administrador"
    /\ \E falla \in BOOLEAN :
        LET t == sesion[s].id IN
        IF falla THEN Rollback(s, 500, "error")
        ELSE IF t \notin AdminIds THEN Rollback(s, 404, "no-encontrado")
        ELSE IF administrador[t].estado = "inactivo" THEN Rollback(s, 404, "ya-inactivo")
        ELSE /\ sesion' = [sesion EXCEPT ![s].pc =
                              IF administrador[t].rol = "Coordinador"
                              THEN "DELETE admin_carrera" ELSE "UPDATE administrador"]
             /\ SetTablas(DB)
             /\ UNCHANGED <<resp, tokens, pdf>>

DeleteUserDeleteAsignaciones(s) ==
    /\ sesion[s].op = "deleteUserByAdmin" /\ sesion[s].pc = "DELETE admin_carrera"
    /\ \E falla \in BOOLEAN :
        IF falla THEN Rollback(s, 500, "error")
        ELSE /\ Sentencia(s, "DELETE admin_carrera",
                          [SinCambios EXCEPT
                             !.acDel = {x \in Vista(s).ac : x[1] = sesion[s].id}],
                          [sesion[s] EXCEPT !.pc = "UPDATE administrador"])
             /\ UNCHANGED <<resp, tokens, pdf>>

DeleteUserUpdate(s) ==
    /\ sesion[s].op = "deleteUserByAdmin" /\ sesion[s].pc = "UPDATE administrador"
    /\ ~BloqueadaAdm(sesion[s].id, s)
    /\ \E falla \in BOOLEAN :
        LET t == sesion[s].id IN
        IF falla THEN Rollback(s, 500, "error")
        ELSE /\ Sentencia(s, "UPDATE administrador",
                          [SinCambios EXCEPT
                             !.admId = t,
                             !.adm = [Vista(s).adm[t] EXCEPT !.estado = "inactivo",
                                                             !.elim = sesion[s].uid]],
                          [sesion[s] EXCEPT !.pc = "COMMIT", !.llaveAdm = t,
                                            !.afectadas = 1])
             /\ UNCHANGED <<resp, tokens, pdf>>

DeleteUserCommit(s) ==
    /\ sesion[s].op = "deleteUserByAdmin" /\ sesion[s].pc = "COMMIT"
    /\ \E falla \in BOOLEAN :
        IF falla THEN Rollback(s, 500, "error") ELSE Commit(s, 200, "ok")

\* ------------------------------------------------ createCarrera, statement by statement
\* AUTO_INCREMENT hands out a key no row and no open transaction holds.
NextIdSesion ==
    LET libres == {c \in CarreraIds :
                      /\ ~Existe(carrera, c)
                      /\ \A o \in SesionIds : ~(EnCurso(o) /\ sesion[o].w.carId = c)}
    IN IF libres = {} THEN NoId
       ELSE CHOOSE c \in libres : \A d \in libres : c <= d

IniciarCreateCarrera(s) ==
    /\ NextId(carrera) # NoId
    /\ \E a \in AdminIds, body \in CarreraBodiesCrear :
        Entrar(s, "createCarrera", a, NoId,
               [SinBody EXCEPT !.nombre = body.nombre,
                               !.id_coordinador = body.id_coordinador],
               Route(a, TRUE, createCarrera(protect(a), body)),
               {"ok"}, "INSERT carrera")

CreateCarreraInsert(s) ==
    /\ sesion[s].op = "createCarrera" /\ sesion[s].pc = "INSERT carrera"
    /\ NextIdSesion # NoId
    /\ LET nid == NextIdSesion IN
       /\ ~Bloqueada(nid, s)
       /\ Sentencia(s, "INSERT carrera",
                    [SinCambios EXCEPT
                       !.carId = nid,
                       !.car = [estado |-> "activa", elim |-> NoId,
                                nombre |-> sesion[s].body.nombre]],
                    [sesion[s] EXCEPT !.pc = "INSERT admin_carrera", !.id = nid,
                                      !.llave = nid, !.afectadas = 1])
    /\ UNCHANGED <<resp, tokens, pdf>>

CreateCarreraInsertAsignacion(s) ==
    /\ sesion[s].op = "createCarrera" /\ sesion[s].pc = "INSERT admin_carrera"
    /\ IF sesion[s].body.id_coordinador \notin AdminIds
       THEN Rollback(s, 500, "error")
       ELSE /\ Sentencia(s, "INSERT admin_carrera",
                         [SinCambios EXCEPT
                            !.acIns = {<<sesion[s].body.id_coordinador, sesion[s].id>>}],
                         [sesion[s] EXCEPT !.pc = "COMMIT"])
            /\ UNCHANGED <<resp, tokens, pdf>>

CreateCarreraCommit(s) ==
    /\ sesion[s].op = "createCarrera" /\ sesion[s].pc = "COMMIT"
    /\ Commit(s, 201, "ok")

\* ------------------------------------------------ updateCarrera, statement by statement
IniciarUpdateCarrera(s) ==
    \E a \in AdminIds, c \in CarreraIds, body \in CarreraBodiesSesion :
        Entrar(s, "updateCarrera", a, c, body,
               Route(a, FALSE, updateCarrera(protect(a), c, body)),
               {"ok", "error", "no-encontrada"}, "UPDATE carrera")

UpdateCarreraUpdate(s) ==
    /\ sesion[s].op = "updateCarrera" /\ sesion[s].pc = "UPDATE carrera"
    /\ ~Bloqueada(sesion[s].id, s)
    /\ LET c == sesion[s].id
           u == [id_administrador |-> sesion[s].uid, rol |-> sesion[s].rol]
       IN IF Existe(carrera, c)
          THEN Sentencia(s, "UPDATE carrera",
                         [SinCambios EXCEPT
                            !.carId = c,
                            !.car = UpdatedCarrera(u, carrera[c], sesion[s].body)],
                         [sesion[s] EXCEPT !.pc = "DELETE admin_carrera",
                                           !.llave = c, !.afectadas = 1])
          ELSE Sentencia(s, "UPDATE carrera", SinCambios,
                         [sesion[s] EXCEPT !.pc = "DELETE admin_carrera",
                                           !.llave = c, !.afectadas = 0])
    /\ UNCHANGED <<resp, tokens, pdf>>

UpdateCarreraDeleteAsignaciones(s) ==
    /\ sesion[s].op = "updateCarrera" /\ sesion[s].pc = "DELETE admin_carrera"
    /\ Sentencia(s, "DELETE admin_carrera",
                 [SinCambios EXCEPT !.acDel = {x \in Vista(s).ac : x[2] = sesion[s].id}],
                 [sesion[s] EXCEPT !.pc = IF sesion[s].body.id_coordinador # NoId
                                          THEN "INSERT admin_carrera" ELSE "COMMIT"])
    /\ UNCHANGED <<resp, tokens, pdf>>

\* The foreign key of admin_carrera on carrera refuses a missing career.
UpdateCarreraInsertAsignacion(s) ==
    /\ sesion[s].op = "updateCarrera" /\ sesion[s].pc = "INSERT admin_carrera"
    /\ IF ~Existe(Vista(s).car, sesion[s].id)
       THEN Rollback(s, 500, "error")
       ELSE /\ Sentencia(s, "INSERT admin_carrera",
                         [SinCambios EXCEPT
                            !.acIns = {<<sesion[s].body.id_coordinador, sesion[s].id>>}],
                         [sesion[s] EXCEPT !.pc = "COMMIT"])
            /\ UNCHANGED <<resp, tokens, pdf>>

UpdateCarreraCommit(s) ==
    /\ sesion[s].op = "updateCarrera" /\ sesion[s].pc = "COMMIT"
    /\ IF sesion[s].afectadas = 0
       THEN SeguirSinTransaccion(s, Aplicar(DB, sesion[s].w), "SELECT carrera")
       ELSE Commit(s, 200, "ok")

\* The check of affectedRows === 0, on the pool, after the commit.
UpdateCarreraCheck(s) ==
    /\ sesion[s].op = "updateCarrera" /\ sesion[s].pc = "SELECT carrera"
    /\ ConexionLibre(s)
    /\ IF ~Existe(carrera, sesion[s].id)
       THEN Terminar(s, 404, "no-encontrada")
       ELSE Terminar(s, 200, "ok")

\* ------------------------------------------------ deleteCarrera, statement by statement
IniciarDeleteCarrera(s) ==
    \E a \in AdminIds, c \in CarreraIds :
        Entrar(s, "deleteCarrera", a, c, SinBody,
               Route(a, TRUE, deleteCarrera(protect(a), c)),
               {"ok", "ya-inactiva", "no-encontrada"}, "UPDATE carrera")

DeleteCarreraUpdate(s) ==
    /\ sesion[s].op = "deleteCarrera" /\ sesion[s].pc = "UPDATE carrera"
    /\ ~Bloqueada(sesion[s].id, s)
    /\ LET c == sesion[s].id IN
       IF ~Existe(carrera, c) \/ carrera[c].estado = "inactiva"
       THEN SeguirSinTransaccion(s, DB, "SELECT carrera")
       ELSE /\ Sentencia(s, "UPDATE carrera",
                         [SinCambios EXCEPT
                            !.carId = c,
                            !.car = [carrera[c] EXCEPT !.estado = "inactiva",
                                                       !.elim = sesion[s].uid]],
                         [sesion[s] EXCEPT !.pc = "DELETE admin_carrera",
                                           !.llave = c, !.afectadas = 1])
            /\ UNCHANGED <<resp, tokens, pdf>>

\* The check of affectedRows === 0, on the pool, after the rollback.
DeleteCarreraCheck(s) ==
    /\ sesion[s].op = "deleteCarrera" /\ sesion[s].pc = "SELECT carrera"
    /\ ConexionLibre(s)
    /\ IF ~Existe(carrera, sesion[s].id)
       THEN Terminar(s, 404, "no-encontrada")
       ELSE Terminar(s, 400, "ya-inactiva")

DeleteCarreraDeleteAsignaciones(s) ==
    /\ sesion[s].op = "deleteCarrera" /\ sesion[s].pc = "DELETE admin_carrera"
    /\ Sentencia(s, "DELETE admin_carrera",
                 [SinCambios EXCEPT !.acDel = {x \in Vista(s).ac : x[2] = sesion[s].id}],
                 [sesion[s] EXCEPT !.pc = "COMMIT"])
    /\ UNCHANGED <<resp, tokens, pdf>>

DeleteCarreraCommit(s) ==
    /\ sesion[s].op = "deleteCarrera" /\ sesion[s].pc = "COMMIT"
    /\ Commit(s, 200, "ok")


\* --------------------------------------------------- public auth endpoints
\* A row as INSERT INTO administrador leaves it (estado and the audit field
\* take the column defaults).
NuevoAdmin(rol, contrasena_hash) ==
    [rol |-> rol, estado |-> "activo", elim |-> NoId, telefono |-> "t0",
     contrasena |-> contrasena_hash]

\* POST /api/auth/register; nombre is Absent or a name no row has.
registerUser(nombre, contrasena, rol) ==
    IF nombre = Absent \/ contrasena = Absent
    THEN Reply(400, "faltan-campos", {}, DB)
    ELSE
    LET rol_final == IF rol = Absent THEN "Rector" ELSE rol
        nid == NextId(administrador) IN
    Reply(201, "ok", {generateToken(nid, rol_final)},
          [DB EXCEPT !.adm[nid] = NuevoAdmin(rol_final, bcryptHash(contrasena))])

\* POST /api/admin/usuarios
createUserByAdmin(u, body) ==
    IF body.nombre = Absent \/ body.contrasena = Absent \/ body.rol = Absent
    THEN Reply(400, "faltan-campos", {}, DB)
    ELSE IF ~validatePasswordRules(body.contrasena)
    THEN Reply(400, "contrasena-invalida", {}, DB)
    ELSE
    LET nid == NextId(administrador) IN
    Reply(201, "ok", {nid},
          [DB EXCEPT !.adm[nid] = NuevoAdmin(body.rol, bcryptHash(body.contrasena))])

\* An email address is numbered by the administrator it belongs to; the
\* number after the last one is an address no row has.
Emails == AdminIds \cup {NumAdmins + 1}

Envios == {"ok", "falla"}

BuscarPorEmail(email) ==
    {a \in AdminIds : a = email /\ administrador[a].estado # NoRow}

\* jwt.sign({ id }, RESET_SECRET)
resetToken(id) ==
    [secreto |-> "RESET_SECRET", id_administrador |-> id, rol |-> "none"]

\* POST /api/auth/forgot-password; envio is the outcome of sendMail.  The
\* rows of the reply are what the mail carries, not the HTTP body.
forgotPassword(email, envio) ==
    IF BuscarPorEmail(email) = {}
    THEN Reply(200, "si-el-email-es-valido", {}, DB)
    ELSE IF envio = "ok"
    THEN Reply(200, "si-el-email-es-valido",
               {resetToken(a) : a \in BuscarPorEmail(email)}, DB)
    ELSE Reply(500, "error-al-enviar-correo", {}, DB)

\* req.body.token when the body has none.
SinToken == [secreto |-> "none", id_administrador |-> NoId, rol |-> "none"]

\* POST /api/auth/reset-password
resetPassword(token, newPassword) ==
    IF token = SinToken \/ newPassword = Absent
    THEN Reply(400, "faltan-datos", {}, DB)
    ELSE IF ~jwtVerify(token, "RESET_SECRET")
    THEN Reply(401, "enlace-invalido-o-expirado", {}, DB)
    ELSE IF administrador[token.id_administrador].estado = NoRow
    THEN Reply(404, "enlace-invalido", {}, DB)
    ELSE Reply(200, "ok", {},
               [DB EXCEPT !.adm[token.id_administrador].contrasena =
                              bcryptHash(newPassword)])

\* ------------------------------------------------- requests that carry a token
\* The reply reaches the client together with the token it carries, if any.
ServeLogin(op, uid, r) ==
    /\ resp' = [op |-> op, uid |-> uid, status |-> r.status, reason |-> r.reason,
                rows |-> {}]
    /\ administrador' = r.db.adm
    /\ admin_carrera' = r.db.ac
    /\ carrera' = r.db.car
    /\ materia' = r.db.mat
    /\ horario' = r.db.hor
    /\ correlatividad' = r.db.cor
    /\ tokens' = tokens \cup r.rows
    /\ UNCHANGED <<sesion, pdf>>

ReqLoginUser ==
    \E a \in AdminIds, p \in {PasswordInicial, "weak"} :
        LET r == loginUser(a, p) IN
        ServeLogin("loginUser", a, r)

\* Bodies that change rol and estado only.
AdminBodiesRolEstado ==
    [telefono : {Absent}, rol : {Absent} \cup Roles,
     estado : {Absent} \cup EstadosAdmin, newContrasena : {Absent}]

TokUpdateUserByAdmin ==
    \E tk \in tokens, t \in AdminIds, body \in AdminBodiesRolEstado :
        Serve("updateUserByAdmin", tk.id_administrador,
              RutaConToken(tk, FALSE,
                  updateUserByAdmin(protectConToken(tk), [n |-> t, canon |-> TRUE], body)))

\* updateUserByAdmin on the role and the state of an administrator.
ReqUpdateRolEstado ==
    \E a \in AdminIds, t \in AdminIds, body \in AdminBodiesRolEstado :
        Serve("updateUserByAdmin", a,
              Route(a, FALSE,
                    updateUserByAdmin(protect(a), [n |-> t, canon |-> TRUE], body)))

TokCreateCarrera ==
    \E tk \in tokens, body \in CarreraBodiesCrear :
        /\ NextId(carrera) # NoId
        /\ Serve("createCarrera", tk.id_administrador,
                 RutaConToken(tk, TRUE, createCarrera(protectConToken(tk), body)))

TokGetCarreras ==
    \E tk \in tokens :
        Serve("getCarreras", tk.id_administrador,
              RutaConToken(tk, FALSE, getCarreras(protectConToken(tk))))

\* ------------------------------------------------ credential-storing requests
ReqRegisterUser ==
    \E nombre \in {Absent, "n1"}, p \in Passwords \cup {Absent},
       rol \in {Absent} \cup Roles :
        /\ NextId(administrador) # NoId
        /\ ServeLogin("registerUser", NoId, registerUser(nombre, p, rol))

UsuarioBodies ==
    [nombre : {Absent, "n1"}, contrasena : Passwords \cup {Absent}, rol : Roles]

ReqCreateUserByAdmin ==
    \E a \in AdminIds, body \in UsuarioBodies :
        /\ NextId(administrador) # NoId
        /\ administrador[a].estado # NoRow
        /\ Serve("createUserByAdmin", a,
                 Route(a, TRUE, createUserByAdmin(protect(a), body)))

PasswordBodies ==
    [telefono : {Absent}, rol : {Absent}, estado : {Absent},
     newContrasena : Passwords]

ReqUpdatePassword ==
    \E a \in AdminIds, t \in AdminIds, body \in PasswordBodies :
        /\ administrador[a].estado # NoRow
        /\ Serve("updateUserByAdmin", a,
                 Route(a, FALSE,
                       updateUserByAdmin(protect(a), [n |-> t, canon |-> TRUE], body)))

ReqForgotPassword ==
    \E email \in Emails, envio \in Envios :
        LET r == forgotPassword(email, envio) IN
        ServeLogin("forgotPassword", NoId, r)

ReqResetPassword ==
    \E tk \in tokens \cup {SinToken}, p \in Passwords \cup {Absent} :
        Serve("resetPassword", NoId, resetPassword(tk, p))

\* One Rector and no other administrator yet.
InitAuth ==
    /\ administrador =
         [a \in AdminIds |->
            IF a = 1 THEN NuevoAdmin("Rector", bcryptHash(PasswordInicial))
            ELSE SinFilaAdm]
    /\ admin_carrera = {}
    /\ carrera = [c \in CarreraIds |-> [estado |-> NoRow, elim |-> NoId, nombre |-> "c0"]]
    /\ materia = [m \in MateriaIds |-> [id_carrera |-> NoId, estado |-> NoRow, elim |-> NoId]]
    /\ horario = [h \in HorarioIds |-> [id_materia |-> NoId, estado |-> NoRow, elim |-> NoId]]
    /\ correlatividad =
         [k \in CorrelatividadIds |->
            [principal |-> NoId, requisito |-> NoId, tipo |-> "Cursar",
             estado_requisito |-> "Regular", estado |-> NoRow, elim |-> NoId]]
    /\ resp = [op |-> "none", uid |-> NoId, status |-> 0, reason |-> "none", rows |-> {}]
    /\ sesion = [s \in SesionIds |-> Libre]
    /\ tokens = {}
    /\ pdf = SinPdf

\* ------------------------------------------- correlatividades of two subjects
CorCreate ==
    \E a \in AdminIds, body \in CorrelatividadBodiesTipos :
        /\ NextId(correlatividad) # NoId
        /\ Serve("createCorrelatividad", a,
                 Route(a, FALSE, createCorrelatividad(protect(a), body)))

CorUpdate ==
    \E a \in AdminIds, id \in DOMAIN correlatividad, body \in CorrelatividadBodiesTipos :
        Serve("updateCorrelatividad", a,
              Route(a, FALSE, updateCorrelatividad(protect(a), id, body)))

CorDelete ==
    \E a \in AdminIds, id \in DOMAIN correlatividad :
        Serve("deleteCorrelatividad", a,
              Route(a, FALSE, deleteCorrelatividad(protect(a), id)))

CorGetPorMateria ==
    \E a \in AdminIds, m \in MateriaIds :
        Serve("getCorrelatividadesPorMateria", a,
              Route(a, FALSE, getCorrelatividadesPorMateria(protect(a), m)))

CorGetInfo ==
    \E m \in MateriaIds :
        LET r == getInfoCorrelativas(m) IN
        Serve("get_correlativas", NoId,
              Reply(200, IF r.encontrada THEN "ok" ELSE "no-activa",
                    r.requisitos \cup r.dependientes, DB))

\* Career 1 with its two subjects, and no correlatividad yet.
InitCorrelativas ==
    /\ administrador =
         [a \in AdminIds |->
            [rol |-> IF a = 1 THEN "Rector" ELSE "Coordinador", estado |-> "activo",
             elim |-> NoId, telefono |-> "t0", contrasena |-> "h0"]]
    /\ admin_carrera = {<<NumAdmins, 1>>}
    /\ carrera = [c \in CarreraIds |->
                    IF c = 1 THEN [estado |-> "activa", elim |-> NoId, nombre |-> "c0"]
                    ELSE [estado |-> NoRow, elim |-> NoId, nombre |-> "c0"]]
    /\ materia = [m \in MateriaIds |-> [id_carrera |-> 1, estado |-> "activa", elim |-> NoId]]
    /\ horario = [h \in HorarioIds |-> [id_materia |-> NoId, estado |-> NoRow, elim |-> NoId]]
    /\ correlatividad =
         [k \in 1..NumCorrelativas |->
            [principal |-> NoId, requisito |-> NoId, tipo |-> "Cursar",
             estado_requisito |-> "Regular", estado |-> NoRow, elim |-> NoId]]
    /\ resp = [op |-> "none", uid |-> NoId, status |-> 0, reason |-> "none", rows |-> {}]
    /\ sesion = [s \in SesionIds |-> Libre]
    /\ tokens = {}
    /\ pdf = SinPdf

\* ------------------------------------------------------------ specification
Init ==
    /\ administrador =
         [a \in AdminIds |->
            [rol |-> IF a = 1 THEN "Rector" ELSE "Coordinador", estado |-> "activo",
             elim |-> NoId, telefono |-> "t0", contrasena |-> "h0"]]
    /\ admin_carrera = {}
    /\ carrera = [c \in CarreraIds |-> [estado |-> NoRow, elim |-> NoId, nombre |-> "c0"]]
    /\ materia = [m \in MateriaIds |-> [id_carrera |-> NoId, estado |-> NoRow, elim |-> NoId]]
    /\ horario = [h \in HorarioIds |-> [id_materia |-> NoId, estado |-> NoRow, elim |-> NoId]]
    /\ correlatividad =
         [k \in CorrelatividadIds |->
            [principal |-> NoId, requisito |-> NoId, tipo |-> "Cursar",
             estado_requisito |-> "Regular", estado |-> NoRow, elim |-> NoId]]
    /\ resp = [op |-> "none", uid |-> NoId, status |-> 0, reason |-> "none", rows |-> {}]
    /\ sesion = [s \in SesionIds |-> Libre]
    /\ tokens = {}
    /\ pdf = SinPdf

\* Careers and subjects under a fixed set of administrators.
Next ==
    \/ ReqCreateCarrera
    \/ ReqUpdateCarrera
    \/ ReqDeleteCarrera
    \/ ReqGetCarreras
    \/ ReqGetCarreraById
    \/ ReqCreateMateria
    \/ ReqUpdateMateria
    \/ ReqDeleteMateria
    \/ ReqGetMateriasAll
    \/ ReqGetMateriaById
    \/ ReqGetMateriasPorCarrera

Spec == Init /\ [][Next]_vars

\* Schedule slots and prerequisite edges of the subjects of active careers.
NextDetalle ==
    \/ ReqCreateCarrera
    \/ ReqCreateMateria
    \/ ReqUpdateMateria
    \/ ReqDeleteMateria
    \/ ReqCreateHorario
    \/ ReqUpdateHorario
    \/ ReqDeleteHorario
    \/ ReqCreateCorrelatividad
    \/ ReqUpdateCorrelatividad
    \/ ReqDeleteCorrelatividad
    \/ ReqGetCarreras
    \/ ReqGetMateriasAll
    \/ ReqGetHorariosPorMateria
    \/ ReqGetHorarioById
    \/ ReqGetCorrelatividadesPorMateria
    \/ ReqGetCorrelatividadById

SpecDetalle == Init /\ [][NextDetalle]_vars

\* The administrators, with the careers they are assigned at creation.
NextAdmin ==
    \/ ReqUpdateUserByAdmin
    \/ ReqDeleteUserByAdmin
    \/ ReqListUsers
    \/ ReqGetUserById
    \/ ReqListCoordinadores
    \/ ReqCreateCarrera

SpecAdmin == Init /\ [][NextAdmin]_vars

\* Soft-delete of administrators one statement at a time, with statements
\* that can fail; careers are created to give the Coordinador assignments.
NextBaja ==
    \/ ReqCreateCarrera
    \/ \E s \in SesionIds :
          \/ IniciarDeleteUserByAdmin(s)
          \/ DeleteUserSelect(s)
          \/ DeleteUserDeleteAsignaciones(s)
          \/ DeleteUserUpdate(s)
          \/ DeleteUserCommit(s)

SpecBaja == Init /\ [][NextBaja]_vars

\* createCarrera, updateCarrera and deleteCarrera interleaved statement by
\* statement on the connections of the pool.
NextCarreras ==
    \E s \in SesionIds :
        \/ IniciarCreateCarrera(s)
        \/ CreateCarreraInsert(s)
        \/ CreateCarreraInsertAsignacion(s)
        \/ CreateCarreraCommit(s)
        \/ IniciarUpdateCarrera(s)
        \/ UpdateCarreraUpdate(s)
        \/ UpdateCarreraDeleteAsignaciones(s)
        \/ UpdateCarreraInsertAsignacion(s)
        \/ UpdateCarreraCommit(s)
        \/ UpdateCarreraCheck(s)
        \/ IniciarDeleteCarrera(s)
        \/ DeleteCarreraUpdate(s)
        \/ DeleteCarreraCheck(s)
        \/ DeleteCarreraDeleteAsignaciones(s)
        \/ DeleteCarreraCommit(s)

SpecCarreras == Init /\ [][NextCarreras]_vars

\* Every kind of entity created and soft-deleted.
NextEliminaciones ==
    \/ ReqCreateCarrera
    \/ ReqCreateMateria
    \/ ReqCreateHorario
    \/ ReqCreateCorrelatividad
    \/ ReqDeleteUserByAdmin
    \/ ReqDeleteCarrera
    \/ ReqDeleteMateria
    \/ ReqDeleteHorario
    \/ ReqDeleteCorrelatividad

SpecEliminaciones == Init /\ [][NextEliminaciones]_vars

\* Logins, and requests authorized by the tokens the logins issued, while
\* roles, states and assignments change.
NextTokens ==
    \/ ReqLoginUser
    \/ TokUpdateUserByAdmin
    \/ TokCreateCarrera
    \/ TokGetCarreras

SpecTokens == Init /\ [][NextTokens]_vars

\* Registration, creation by a Rector, password change, the reset flow and
\* login, starting with one Rector.
NextAuth ==
    \/ ReqRegisterUser
    \/ ReqCreateUserByAdmin
    \/ ReqUpdatePassword
    \/ ReqForgotPassword
    \/ ReqResetPassword
    \/ ReqLoginUser

SpecAuth == InitAuth /\ [][NextAuth]_vars

\* deleteCarrera and deleteUserByAdmin on the connections of the pool, every
\* request going on whenever the statement it awaits can run; careers are
\* created in one step.
PasosConexion(s) ==
    \/ DeleteCarreraUpdate(s)
    \/ DeleteCarreraCheck(s)
    \/ DeleteCarreraDeleteAsignaciones(s)
    \/ DeleteCarreraCommit(s)
    \/ DeleteUserSelect(s)
    \/ DeleteUserDeleteAsignaciones(s)
    \/ DeleteUserUpdate(s)
    \/ DeleteUserCommit(s)

NextConexiones ==
    \/ ReqCreateCarrera
    \/ \E s \in SesionIds :
          \/ IniciarDeleteCarrera(s)
          \/ IniciarDeleteUserByAdmin(s)
          \/ PasosConexion(s)

SpecConexiones ==
    /\ Init
    /\ [][NextConexiones]_vars
    /\ \A s \in SesionIds : SF_vars(PasosConexion(s))

\* Administrators and careers created, changed of role or state, and
\* soft-deleted.
NextGestion ==
    \/ ReqUpdateRolEstado
    \/ ReqDeleteUserByAdmin
    \/ ReqCreateCarrera
    \/ ReqUpdateCarrera
    \/ ReqDeleteCarrera

SpecGestion == Init /\ [][NextGestion]_vars

\* Correlatividades between two subjects created, changed, soft-deleted and
\* read, the subjects being soft-deleted too.
NextCorrelativas ==
    \/ CorCreate
    \/ CorUpdate
    \/ CorDelete
    \/ CorGetPorMateria
    \/ CorGetInfo
    \/ ReqDeleteMateria

SpecCorrelativas == InitCorrelativas /\ [][NextCorrelativas]_vars

\* ================================================================== claims
\* An authenticated principal: protect lets only estado = 'activo' through.
Coordinadores ==
    {a \in AdminIds : administrador[a].rol = "Coordinador" /\ protectPasses(a)}

Rectores == {a \in AdminIds : administrador[a].rol = "Rector" /\ protectPasses(a)}

\* The request is refused and no table changes.
Denegada(r) == r.status \in {400, 403, 404} /\ r.db = DB

Vacia(r) == r.status = 200 /\ r.rows = {}

CarreraDeMateria(m) == materia[m].id_carrera

FueraDeAlcance(a, m) ==
    Existe(materia, m) /\ <<a, CarreraDeMateria(m)>> \notin admin_carrera

\* ---------------------------------------------------------------------- C1
\* C1: for every authenticated Coordinador whose set of admin_carrera rows is
\* empty, getCarreras, getMateriasAll, getHorariosPorMateria and
\* getCorrelatividadesPorMateria each answer 200 with an empty collection,
\* whatever the query parameter.
C1_ListasVaciasSinAsignaciones ==
    \A a \in Coordinadores :
        Asignadas(a) = {} =>
            /\ Vacia(Route(a, FALSE, getCarreras(protect(a))))
            /\ \A q \in {NoId} \cup CarreraIds :
                   Vacia(Route(a, FALSE, getMateriasAll(protect(a), q)))
            /\ \A m \in {NoId} \cup MateriaIds :
                   Vacia(Route(a, FALSE, getHorariosPorMateria(protect(a), m)))
            /\ \A m \in MateriaIds :
                   Vacia(Route(a, FALSE, getCorrelatividadesPorMateria(protect(a), m)))

\* A Coordinador without assignments has listed the careers and got none,
\* while an active career, subject, slot and edge exist.
C1_Witness ==
    /\ resp.op = "getCarreras" /\ resp.status = 200 /\ resp.rows = {}
    /\ resp.uid \in Coordinadores /\ Asignadas(resp.uid) = {}
    /\ \E c \in CarreraIds : carrera[c].estado = "activa"
    /\ \E m \in MateriaIds : materia[m].estado = "activa"
    /\ \E h \in HorarioIds : horario[h].estado = "activa"
    /\ \E k \in CorrelatividadIds : correlatividad[k].estado = "activa"

C5_AccesoEnAlcance ==
    \A a \in Coordinadores, m \in MateriaIds :
        /\ checkMateriaAccess(m, a) <=>
               (/\ Existe(materia, m) /\ materia[m].estado = "activa"
                /\ <<a, CarreraDeMateria(m)>> \in admin_carrera)
        /\ (/\ Existe(materia, m) /\ materia[m].estado = "activa"
            /\ <<a, CarreraDeMateria(m)>> \in admin_carrera) =>
               Route(a, FALSE, createHorario(protect(a), [id_materia |-> m])).status # 403

\* ---------------------------------------------------------------------- C2
\* C2: every list read of subjects, slots and edges (getMateriasAll,
\* getHorariosPorMateria, getCorrelatividadesPorMateria, and the chatbot's
\* getMateriasPorCarrera) returns only rows whose owning career is 'activa'.
CarreraActiva(c) == Existe(carrera, c) /\ carrera[c].estado = "activa"

C2_SoloCarrerasActivas ==
    /\ \A a \in Coordinadores \cup Rectores :
        LET u == protect(a) IN
        /\ \A q \in {NoId} \cup CarreraIds :
               \A m \in Route(a, FALSE, getMateriasAll(u, q)).rows :
                   CarreraActiva(CarreraDeMateria(m))
        /\ \A i \in MateriaIds :
               \A h \in Route(a, FALSE, getHorariosPorMateria(u, i)).rows :
                   CarreraActiva(CarreraDeMateria(horario[h].id_materia))
        /\ \A i \in MateriaIds :
               \A k \in Route(a, FALSE, getCorrelatividadesPorMateria(u, i)).rows :
                   CarreraActiva(CarreraDeMateria(correlatividad[k].principal))
    /\ \A c \in CarreraIds :
           \A m \in getMateriasPorCarrera(c).rows : CarreraActiva(CarreraDeMateria(m))

\* ---------------------------------------------------------------------- C3
\* C3: no list operation returns a career, subject, slot, edge or
\* administrator whose state is inactive, and neither does a read by id,
\* getUserById excepted.
Inactiva(tabla, i) == tabla[i].estado \in {"inactiva", "inactivo"}

C3_InactivosExcluidos ==
    \A a \in Coordinadores \cup Rectores :
        LET u == protect(a) IN
        /\ \A x \in Route(a, TRUE, listUsers(u)).rows : ~Inactiva(administrador, x)
        /\ \A x \in Route(a, TRUE, listCoordinadores(u)).rows :
               ~Inactiva(administrador, x)
        /\ \A x \in Route(a, FALSE, getCarreras(u)).rows : ~Inactiva(carrera, x)
        /\ \A c \in CarreraIds :
               \A x \in Route(a, FALSE, getCarreraById(u, c)).rows : ~Inactiva(carrera, x)
        /\ \A q \in {NoId} \cup CarreraIds :
               \A x \in Route(a, FALSE, getMateriasAll(u, q)).rows : ~Inactiva(materia, x)
        /\ \A m \in MateriaIds :
               /\ \A x \in Route(a, FALSE, getMateriaById(u, m)).rows :
                      ~Inactiva(materia, x)
               /\ \A x \in Route(a, FALSE, getHorariosPorMateria(u, m)).rows :
                      ~Inactiva(horario, x)
               /\ \A x \in Route(a, FALSE, getCorrelatividadesPorMateria(u, m)).rows :
                      ~Inactiva(correlatividad, x)
        /\ \A h \in HorarioIds :
               \A x \in Route(a, FALSE, getHorarioById(u, h)).rows : ~Inactiva(horario, x)
        /\ \A k \in CorrelatividadIds :
               \A x \in Route(a, FALSE, getCorrelatividadById(u, k)).rows :
                   ~Inactiva(correlatividad, x)

\* ---------------------------------------------------------------------- C6
\* C6: createCarrera, deleteCarrera and an updateCarrera whose estado is
\* 'cerrada' or 'inactiva' succeed only for a Rector; for a Coordinador, even
\* one assigned to the career, they answer 403 and leave carrera and
\* admin_carrera (and every other table) unchanged.
Exito(r) == r.status \in {200, 201}

EstadoCritico(body) == body.estado \in {"cerrada", "inactiva"}

C6_SoloRectorCreaCierraElimina ==
    \A a \in Coordinadores \cup Rectores :
        LET u == protect(a)
            esCoordinador == administrador[a].rol = "Coordinador"
        IN
        /\ \A body \in CarreraBodiesCrear :
               LET r == Route(a, TRUE, createCarrera(u, body)) IN
               /\ Exito(r) => ~esCoordinador
               /\ esCoordinador => r.status = 403 /\ r.db = DB
        /\ \A c \in CarreraIds :
               LET r == Route(a, TRUE, deleteCarrera(u, c)) IN
               /\ Exito(r) => ~esCoordinador
               /\ esCoordinador => r.status = 403 /\ r.db = DB
        /\ \A c \in CarreraIds, body \in CarreraBodies :
               EstadoCritico(body) =>
                   LET r == Route(a, FALSE, updateCarrera(u, c, body)) IN
                   /\ Exito(r) => ~esCoordinador
                   /\ esCoordinador => r.status = 403 /\ r.db = DB

\* A Coordinador to whom every career is assigned was refused the closing or
\* deactivation of a career.
C6_Witness ==
    /\ resp.op = "updateCarrera" /\ resp.status = 403
    /\ resp.reason = "solo-rector-cierra"
    /\ resp.uid \in Coordinadores
    /\ \A c \in CarreraIds : CarreraActiva(c) /\ <<resp.uid, c>> \in admin_carrera

\* ---------------------------------------------------------------------- C7
\* C7: an updateUserByAdmin request whose target row is the requester's own
\* and whose estado is 'suspendido' or 'inactivo' (different from the current
\* one) answers 403 and changes nothing.
C7_SinAutoSuspension ==
    \A a \in Coordinadores \cup Rectores :
        \A id \in AdminParams, body \in AdminBodies :
            (/\ SqlMatch(id, a)
             /\ body.estado \in {"suspendido", "inactivo"}
             /\ body.estado # administrador[a].estado) =>
                LET r == Route(a, FALSE, updateUserByAdmin(protect(a), id, body)) IN
                r.status = 403 /\ r.db = DB

\* ---------------------------------------------------------------------- C8
\* C8: a deleteUserByAdmin request whose target row is the requester's own is
\* refused and changes nothing.
C8_SinAutoEliminacion ==
    \A a \in Coordinadores \cup Rectores :
        \A id \in AdminParams :
            SqlMatch(id, a) =>
                LET r == Route(a, TRUE, deleteUserByAdmin(protect(a), id)) IN
                r.status = 403 /\ r.db = DB

\* ---------------------------------------------------------------------- C9
\* C9: updateUserByAdmin issued by a Coordinador changes a record only when
\* the target is the Coordinador's own row, and then only that row; any
\* other target is refused with nothing changed. A Rector may update any
\* existing administrator.
C9_CoordinadorSoloPropios ==
    /\ \A a \in Coordinadores :
        \A id \in AdminParams, body \in AdminBodies :
            LET r == Route(a, FALSE, updateUserByAdmin(protect(a), id, body)) IN
            /\ id.n # a => r.status \in {403, 404} /\ r.db = DB
            /\ r.db # DB => id.n = a
            /\ \A t \in AdminIds \ {a} : r.db.adm[t] = administrador[t]
    /\ \A a \in Rectores :
        \A t \in AdminIds :
            LET body == [telefono |-> "t1", rol |-> Absent, estado |-> Absent,
                         newContrasena |-> Absent]
                r == Route(a, FALSE,
                           updateUserByAdmin(protect(a), [n |-> t, canon |-> TRUE], body))
            IN r.status = 200 /\ r.db.adm[t].telefono = "t1"

\* A Coordinador was refused the update of another administrator.
C9_Witness ==
    /\ resp.op = "updateUserByAdmin" /\ resp.status = 403
    /\ resp.reason = "coordinador-solo-propios"
    /\ resp.uid \in Coordinadores

\* ---------------------------------------------------------------------- C10
\* C10 (as amended): when a Coordinador updates their own row with a body
\* that carries rol or estado, the whole request answers 403 and nothing is
\* stored, the personal fields included; whatever the body, the stored rol
\* and estado of the Coordinador do not change.
ConRolOEstado(body) == body.rol # Absent \/ body.estado # Absent

Propio(a) == [n |-> a, canon |-> TRUE]

C10_RolEstadoDeniegaTodo ==
    \A a \in Coordinadores :
        \A body \in AdminBodies :
            LET r == Route(a, FALSE, updateUserByAdmin(protect(a), Propio(a), body)) IN
            /\ ConRolOEstado(body) => r.status = 403 /\ r.db = DB
            /\ r.db.adm[a].rol = administrador[a].rol
            /\ r.db.adm[a].estado = administrador[a].estado

\* A Coordinador was refused an update that carried rol or estado.
C10_Witness ==
    /\ resp.op = "updateUserByAdmin" /\ resp.status = 403
    /\ resp.reason = "coordinador-rol-estado"
    /\ resp.uid \in Coordinadores
    /\ administrador[resp.uid].telefono = "t0"

\* C10 (as stated): when the body carries rol or estado together with a
\* personal field, the personal field is applied while rol and estado stay.
C10_CamposPersonalesAplicados ==
    \A a \in Coordinadores :
        \A body \in AdminBodies :
            (ConRolOEstado(body) /\ body.telefono # Absent) =>
                LET r == Route(a, FALSE,
                               updateUserByAdmin(protect(a), Propio(a), body)) IN
                /\ r.db.adm[a].telefono = body.telefono
                /\ r.db.adm[a].rol = administrador[a].rol
                /\ r.db.adm[a].estado = administrador[a].estado

\* ---------------------------------------------------------------------- C11
\* C11: an administrator's stored rol changes only through a request whose
\* principal is a Rector other than the administrator changed; no request
\* changes the rol of its own principal.
C11_RolSoloPorOtroRector ==
    \A a \in Coordinadores \cup Rectores :
        \A id \in AdminParams, body \in AdminBodies :
            LET r == Route(a, FALSE, updateUserByAdmin(protect(a), id, body)) IN
            \A t \in AdminIds :
                r.db.adm[t].rol # administrador[t].rol =>
                    administrador[a].rol = "Rector" /\ t # a

\* ---------------------------------------------------------------------- C13
\* C13: when a committed updateUserByAdmin sets to 'suspendido' or 'inactivo'
\* an administrator whose stored rol is Coordinador, no admin_carrera row of
\* that administrator remains, whatever else the body carries.
C13_SuspenderDesasigna ==
    \A a \in Coordinadores \cup Rectores :
        \A id \in AdminParams, body \in AdminBodies :
            LET r == Route(a, FALSE, updateUserByAdmin(protect(a), id, body)) IN
            \A t \in AdminRow(id) :
                (/\ r.status = 200
                 /\ administrador[t].rol = "Coordinador"
                 /\ body.estado \in {"suspendido", "inactivo"}
                 /\ r.db.adm[t].estado = body.estado) =>
                    \A x \in r.db.ac : x[1] # t

\* ---------------------------------------------------------------------- C14
\* C14: in every committed state a career whose estado is 'cerrada' or
\* 'inactiva' has no admin_carrera row.
C14_CerradaSinAsignacion ==
    \A c \in CarreraIds :
        carrera[c].estado \in {"cerrada", "inactiva"} =>
            \A x \in admin_carrera : x[2] # c

\* ---------------------------------------------------------------------- C12
\* C12: deleteUserByAdmin is atomic. Every step of the request that is not
\* its successful COMMIT, in particular a failure after the DELETE of the
\* assignments, leaves the committed tables exactly as they were; the
\* successful COMMIT applies the assignment delete and the state/audit write
\* together.
C12_BajaAtomica ==
    [][\A s \in SesionIds :
          (sesion[s].op = "deleteUserByAdmin" /\ EnCurso(s) /\ sesion'[s] # sesion[s]) =>
              IF sesion'[s].pc = "fin" /\ sesion'[s].status = 200
              THEN /\ sesion[s].w.admId = sesion[s].id
                   /\ DB' = Aplicar(DB, sesion[s].w)
              ELSE DB' = DB]_vars

\* The soft-delete of a Coordinador failed at the UPDATE of administrador,
\* after the DELETE of the assignments had run: the assignments are all
\* there and the state and audit fields are untouched.
C12_Witness ==
    \E s \in SesionIds :
        /\ sesion[s].op = "deleteUserByAdmin" /\ sesion[s].pc = "fin"
        /\ sesion[s].status = 500
        /\ sesion[s].w.acDel # {} /\ sesion[s].w.admId = NoId
        /\ sesion[s].w.acDel \subseteq admin_carrera
        /\ administrador[sesion[s].id].rol = "Coordinador"
        /\ administrador[sesion[s].id].estado = "activo"
        /\ administrador[sesion[s].id].elim = NoId

\* ---------------------------------------------------------------------- C15
\* C15: under every interleaving of createCarrera, updateCarrera and
\* deleteCarrera, each career has at most one admin_carrera row in every
\* committed state, and the COMMIT of an updateCarrera leaves the career
\* with exactly the coordinator supplied, or with none when none was supplied.
AsignacionesDe(ac, c) == {x \in ac : x[2] = c}

C15_UnaAsignacionPorCarrera ==
    [][/\ \A c \in CarreraIds : Cardinality(AsignacionesDe(admin_carrera', c)) <= 1
       /\ \A s \in SesionIds :
             (/\ sesion[s].op = "updateCarrera" /\ sesion[s].pc = "COMMIT"
              /\ sesion'[s].pc = "fin") =>
                 AsignacionesDe(admin_carrera', sesion[s].id) =
                     IF sesion[s].body.id_coordinador # NoId
                     THEN {<<sesion[s].body.id_coordinador, sesion[s].id>>}
                     ELSE {}]_vars

\* Two updateCarrera requests for the same assigned career with different
\* coordinators are in flight: one is about to commit, the other waits at
\* its UPDATE.
C15_Witness ==
    \E s, o \in SesionIds :
        /\ s # o
        /\ sesion[s].op = "updateCarrera" /\ sesion[s].pc = "COMMIT"
        /\ sesion[o].op = "updateCarrera" /\ sesion[o].pc = "UPDATE carrera"
        /\ sesion[o].id = sesion[s].id
        /\ Bloqueada(sesion[o].id, o)
        /\ sesion[s].body.id_coordinador # NoId
        /\ sesion[o].body.id_coordinador # NoId
        /\ sesion[s].body.id_coordinador # sesion[o].body.id_coordinador
        /\ AsignacionesDe(admin_carrera, sesion[s].id) # {}

\* ---------------------------------------------------------------------- C16
\* C16: for each of administrador, carrera, materia, horario and
\* correlatividad, a soft-delete of a row that is not yet inactive, issued by
\* a Rector, answers 200 and writes the state and the audit fields; a
\* soft-delete of a row that is already inactive, by any principal, answers
\* 400 or 404 and leaves the row, audit fields included, as it was.
Baja(r, fila, por) ==
    r.status = 200 /\ fila.estado \in {"inactiva", "inactivo"} /\ fila.elim = por

YaInactiva(r) == r.status \in {400, 404} /\ r.db = DB

C16_BajaIdempotente ==
    \A a \in Coordinadores \cup Rectores :
        LET u == protect(a)
            esRector == administrador[a].rol = "Rector"
        IN
        /\ \A t \in AdminIds \ {a} :
               LET r == Route(a, TRUE, deleteUserByAdmin(u, [n |-> t, canon |-> TRUE])) IN
               IF administrador[t].estado = "inactivo"
               THEN esRector => YaInactiva(r)
               ELSE esRector => Baja(r, r.db.adm[t], a)
        /\ \A c \in CarreraIds :
               LET r == Route(a, TRUE, deleteCarrera(u, c)) IN
               Existe(carrera, c) =>
                   IF carrera[c].estado = "inactiva"
                   THEN esRector => YaInactiva(r)
                   ELSE esRector => Baja(r, r.db.car[c], a)
        /\ \A m \in MateriaIds :
               LET r == Route(a, FALSE, deleteMateria(u, m)) IN
               Existe(materia, m) =>
                   IF materia[m].estado = "inactiva" THEN YaInactiva(r)
                   ELSE esRector => Baja(r, r.db.mat[m], a)
        /\ \A h \in HorarioIds :
               LET r == Route(a, FALSE, deleteHorario(u, h)) IN
               Existe(horario, h) =>
                   IF horario[h].estado = "inactiva" THEN YaInactiva(r)
                   ELSE esRector => Baja(r, r.db.hor[h], a)
        /\ \A k \in CorrelatividadIds :
               LET r == Route(a, FALSE, deleteCorrelatividad(u, k)) IN
               Existe(correlatividad, k) =>
                   IF correlatividad[k].estado = "inactiva" THEN YaInactiva(r)
                   ELSE esRector => Baja(r, r.db.cor[k], a)

\* A second soft-delete of a subject was just refused, and a row of each of
\* the five kinds has been soft-deleted.
C16_Witness ==
    /\ resp.op = "deleteMateria" /\ resp.status = 400 /\ resp.reason = "ya-inactiva"
    /\ \E t \in AdminIds : administrador[t].estado = "inactivo" /\ administrador[t].elim # NoId
    /\ \E c \in CarreraIds : carrera[c].estado = "inactiva" /\ carrera[c].elim # NoId
    /\ \E m \in MateriaIds : materia[m].estado = "inactiva" /\ materia[m].elim # NoId
    /\ \E h \in HorarioIds : horario[h].estado = "inactiva" /\ horario[h].elim # NoId
    /\ \E k \in CorrelatividadIds :
           correlatividad[k].estado = "inactiva" /\ correlatividad[k].elim # NoId

\* The reply of protect to an account that is not active.
NoActiva == Reply(403, "cuenta-no-activa", {}, DB)

\* Every protected request that token carries is answered by protect.
TokenRechazado(tk) ==
    /\ RutaConToken(tk, FALSE, getCarreras(protectConToken(tk))) = NoActiva
    /\ \A body \in CarreraBodiesCrear :
           RutaConToken(tk, TRUE, createCarrera(protectConToken(tk), body)) = NoActiva
    /\ \A t \in AdminIds, body \in AdminBodiesRolEstado :
           RutaConToken(tk, FALSE,
               updateUserByAdmin(protectConToken(tk), [n |-> t, canon |-> TRUE], body))
             = NoActiva

\* C17: while an administrator is suspended or inactive, a login with any
\* password is refused and issues no token, and every protected request that
\* carries a token issued to them earlier is answered 403 by protect, with no
\* controller run and nothing written; and the account becomes active again
\* only in an updateUserByAdmin request of an active Rector.
C17_SuspendidoRechazado ==
    [][ /\ \A a \in AdminIds :
               administrador[a].estado \in {"suspendido", "inactivo"} =>
                   /\ \A p \in Passwords :
                          LET r == loginUser(a, p) IN
                          r.status = 401 /\ r.rows = {} /\ r.db = DB
                   /\ \A tk \in tokens :
                          tk.id_administrador = a => TokenRechazado(tk)
        /\ \A a \in AdminIds :
               ( /\ administrador[a].estado \in {"suspendido", "inactivo"}
                 /\ administrador'[a].estado = "activo" ) =>
                   /\ resp'.op = "updateUserByAdmin"
                   /\ resp'.status = 200
                   /\ resp'.uid # a
                   /\ administrador[resp'.uid].rol = "Rector"
                   /\ administrador[resp'.uid].estado = "activo" ]_vars

\* A suspended administrator just used a token issued before the suspension
\* and protect answered 403.
C17_Witness ==
    /\ resp.op = "getCarreras" /\ resp.status = 403 /\ resp.reason = "cuenta-no-activa"
    /\ administrador[resp.uid].estado = "suspendido"
    /\ \E tk \in tokens : tk.id_administrador = resp.uid

\* C18: for every token issued, the role and the careers in charge that
\* protect gives the request are the ones stored now, whatever role the token
\* was signed with, and the Rector-only routes admit the request exactly when
\* the stored role is Rector.
C18_RolYAlcanceDelAlmacen ==
    \A tk \in tokens :
        LET a == tk.id_administrador
            u == protectConToken(tk) IN
        administrador[a].estado = "activo" =>
            /\ u.rol = administrador[a].rol
            /\ u.carreras_a_cargo_ids =
                   (IF administrador[a].rol = "Coordinador" THEN Asignadas(a) ELSE {})
            /\ \A body \in CarreraBodiesCrear :
                   LET r == RutaConToken(tk, TRUE, createCarrera(u, body)) IN
                   IF administrador[a].rol = "Rector"
                   THEN r = createCarrera(protect(a), body)
                   ELSE r = Reply(403, "se-requiere-rector", {}, DB)
            /\ RutaConToken(tk, FALSE, getCarreras(u)).rows = getCarreras(protect(a)).rows

\* A token signed with rol Rector was just refused on a Rector-only route,
\* its holder being a Coordinador in storage now.
C18_Witness ==
    /\ resp.op = "createCarrera" /\ resp.status = 403
    /\ resp.reason = "se-requiere-rector"
    /\ \E tk \in tokens :
           /\ tk.id_administrador = resp.uid /\ tk.rol = "Rector"
           /\ administrador[resp.uid].rol = "Coordinador"
           /\ administrador[resp.uid].estado = "activo"

\* C19: forgot-password answers with the same status and message whatever
\* the address (of an administrator or of nobody) and whatever the outcome of
\* sending the mail.
C19_RespuestaGenerica ==
    \A e1 \in Emails, e2 \in Emails, v1 \in Envios, v2 \in Envios :
        LET r1 == forgotPassword(e1, v1)
            r2 == forgotPassword(e2, v2) IN
        r1.status = r2.status /\ r1.reason = r2.reason

\* C20: a password that breaks the policy is refused by every operation that
\* stores a credential hash (registerUser, createUserByAdmin, updateUserByAdmin
\* with a new password, resetPassword), and nothing is stored.
C20_PoliticaAntesDeGuardar ==
    \A p \in Passwords :
        ~validatePasswordRules(p) =>
            /\ NextId(administrador) # NoId =>
                   /\ \A rol \in {Absent} \cup Roles :
                          LET r == registerUser("n1", p, rol) IN
                          r.status = 400 /\ r.db = DB
                   /\ \A a \in Rectores, rol \in Roles :
                          LET r == Route(a, TRUE,
                                     createUserByAdmin(protect(a),
                                         [nombre |-> "n1", contrasena |-> p, rol |-> rol])) IN
                          r.status \in {400, 403} /\ r.db = DB
            /\ \A a \in AdminIds, t \in AdminIds :
                   administrador[a].estado # NoRow =>
                       LET r == Route(a, FALSE,
                                  updateUserByAdmin(protect(a), [n |-> t, canon |-> TRUE],
                                      [telefono |-> Absent, rol |-> Absent,
                                       estado |-> Absent, newContrasena |-> p])) IN
                       r.status \in {400, 403, 404} /\ r.db = DB
            /\ \A tk \in tokens :
                   LET r == resetPassword(tk, p) IN
                   r.status \in {400, 401, 404} /\ r.db = DB

\* C21: a connection that a transactional operation took from the pool is
\* eventually released, whatever path the handler takes.
C21_ConexionLiberada ==
    \A s \in SesionIds : EnCurso(s) ~> ~EnCurso(s)

\* Every active administrator and every active career of the tables d has
\* empty audit fields.
ActivosSinAuditoria(d) ==
    /\ \A a \in AdminIds : d.adm[a].estado = "activo" => d.adm[a].elim = NoId
    /\ \A c \in CarreraIds : d.car[c].estado = "activa" => d.car[c].elim = NoId

\* C22: every active administrator and every active career has empty audit
\* fields, and a request that brings a suspended or inactive administrator,
\* or a closed or inactive career, back to active leaves its audit fields
\* empty.
C22_ActivoSinAuditoria ==
    /\ ActivosSinAuditoria(DB)
    /\ \A a \in AdminIds :
        LET u == protect(a) IN
        /\ \A t \in AdminIds, body \in AdminBodiesRolEstado :
               LET r == Route(a, FALSE,
                              updateUserByAdmin(u, [n |-> t, canon |-> TRUE], body)) IN
               ( /\ administrador[t].estado \in {"suspendido", "inactivo"}
                 /\ r.db.adm[t].estado = "activo" ) => r.db.adm[t].elim = NoId
        /\ \A c \in CarreraIds, body \in CarreraBodies :
               LET r == Route(a, FALSE, updateCarrera(u, c, body)) IN
               ( /\ carrera[c].estado \in {"cerrada", "inactiva"}
                 /\ r.db.car[c].estado = "activa" ) => r.db.car[c].elim = NoId

\* A career was just brought back to active by updateCarrera with empty audit
\* fields, while another career and an administrator are inactive with their
\* audit fields set.
C22_Witness ==
    /\ resp.op = "updateCarrera" /\ resp.status = 200
    /\ \E c \in resp.rows : carrera[c].estado = "activa" /\ carrera[c].elim = NoId
    /\ \E c \in CarreraIds : carrera[c].estado = "inactiva" /\ carrera[c].elim # NoId
    /\ \E t \in AdminIds : administrador[t].estado = "inactivo" /\ administrador[t].elim # NoId

\* C23: no stored correlatividad has its principal subject equal to its
\* required subject, and a createCorrelatividad or updateCorrelatividad
\* request that names the same subject twice, each id a number or a numeric
\* string, is refused with 400 and changes nothing.
C23_SinAutoCorrelatividad ==
    /\ \A k \in CorrelatividadIds :
           Existe(correlatividad, k) =>
               correlatividad[k].principal # correlatividad[k].requisito
    /\ \A a \in AdminIds, body \in CorrelatividadBodiesMixtas :
           body.id_materia_principal.n = body.id_materia_requisito.n =>
               /\ NextId(correlatividad) # NoId =>
                      LET r == Route(a, FALSE, createCorrelatividad(protect(a), body)) IN
                      r.status \in {400, 403} /\ r.db = DB
               /\ \A k \in CorrelatividadIds :
                      LET r == Route(a, FALSE, updateCorrelatividad(protect(a), k, body)) IN
                      r.status \in {400, 403, 404} /\ r.db = DB

\* The active correlatividades to attend with the required subject regular.
CursarRegular(k) ==
    /\ correlatividad[k].estado = "activa"
    /\ correlatividad[k].tipo = "Cursar"
    /\ correlatividad[k].estado_requisito = "Regular"

\* Both subjects of correlatividad k are active.
MateriasActivas(k) ==
    /\ Existe(materia, correlatividad[k].principal)
    /\ materia[correlatividad[k].principal].estado = "activa"
    /\ Existe(materia, correlatividad[k].requisito)
    /\ materia[correlatividad[k].requisito].estado = "activa"

PageHeight == 59528             \* doc.page.height of an A4 page in landscape
pageTopMargin == 3000           \* margin: 30, and currentY = 30 on a new page
pageBottomMargin == 3000
mergedAnioHeaderHeight == 2000
headerHeight == 3000            \* the height the estimate counts for the column header
headerRowHeight == 2500         \* the height drawTableRow draws a header with
smallSpaceHeight == 220
totalRowHeight == 2500
spaceAfterBlock == 1500
minRowHeight == 1800
finalTotalRowHeight == 2500
spaceForFinalTotal == finalTotalRowHeight + 1000

\* What mysql2 hands over for total_horas_anuales: NULL, a number, or a text.
MaxHoras == 2
MaxLenTexto == 2
Caracteres == {"1", "h"}
Textos == UNION {[1..n -> Caracteres] : n \in 0..MaxLenTexto}
Figuras ==
    {[t |-> "null", n |-> 0, s |-> <<>>]}
      \cup {[t |-> "number", n |-> k, s |-> <<>>] : k \in 0..MaxHoras}
      \cup {[t |-> "string", n |-> 0, s |-> x] : x \in Textos}

EsDigito(c) == c \in {"1"}
DigitoDe(c) == 1
NaN == -1

RECURSIVE LeerDigitos(_, _, _)
LeerDigitos(s, i, acc) ==
    IF i > Len(s) \/ ~EsDigito(s[i]) THEN acc
    ELSE LeerDigitos(s, i + 1, acc * 10 + DigitoDe(s[i]))

\* parseInt(v, 10): a number is its integer part; a text is the integer its
\* leading digits spell, whatever follows them, and NaN when it has none.
parseInt(v) ==
    IF v.t = "number" THEN v.n
    ELSE IF v.s = <<>> \/ ~EsDigito(v.s[1]) THEN NaN
    ELSE LeerDigitos(v.s, 1, 0)

\* JavaScript's falsy values among the figures: null, 0 and ''.
Falsy(v) == v.t = "null" \/ (v.t = "number" /\ v.n = 0) \/ (v.t = "string" /\ v.s = <<>>)

horasAnualesNum(v) ==
    LET horasAnuales == IF Falsy(v) THEN [t |-> "number", n |-> 0, s |-> <<>>] ELSE v
        n == parseInt(horasAnuales)
    IN  IF n = NaN \/ n = 0 THEN 0 ELSE n

\* The rows of step 2 of fetchPlanData: the active subjects of the career.
materiasRows(idCarrera) ==
    {m \in MateriaIds : materia[m].id_carrera = idCarrera /\ materia[m].estado = "activa"}

RECURSIVE SumaHoras(_, _)
SumaHoras(ids, filas) ==
    IF ids = {} THEN 0
    ELSE LET m == CHOOSE x \in ids : TRUE
         IN  horasAnualesNum(filas[m].horas) + SumaHoras(ids \ {m}, filas)

\* ORDER BY año, id_materia, restricted to one year.
RECURSIVE EnOrden(_)
EnOrden(ids) ==
    IF ids = {} THEN <<>>
    ELSE LET m == CHOOSE x \in ids : \A y \in ids : x <= y
         IN  <<m>> \o EnOrden(ids \ {m})

NoPlan == [encontrada |-> FALSE, anios |-> {}, materiasPorAnio |-> <<>>,
           totalHorasAnuales |-> <<>>, totalHorasCarrera |-> 0]

fetchPlanData(idCarrera, filas) ==
    IF ~(carrera[idCarrera].estado = "activa") THEN NoPlan
    ELSE LET rows == materiasRows(idCarrera)
             anios == {filas[m].anio : m \in rows}
             DelAnio(a) == {m \in rows : filas[m].anio = a}
         IN  [encontrada |-> TRUE,
              anios |-> anios,
              materiasPorAnio |-> [a \in anios |-> EnOrden(DelAnio(a))],
              totalHorasAnuales |-> [a \in anios |-> SumaHoras(DelAnio(a), filas)],
              totalHorasCarrera |-> SumaHoras(rows, filas)]

RECURSIVE SumaAlturas(_, _, _)
SumaAlturas(ms, n, filas) ==
    IF n = 0 THEN 0 ELSE filas[ms[n]].alto + SumaAlturas(ms, n - 1, filas)

\* What pdfkit adds to doc.y: moveDown(0.2) before a block, after the titles,
\* and from the top of a totals row to doc.y after its texts and moveDown(1).
AvanceMoveDown02 == {182, 282}
InicioTablas == {10050, 11320}
AvanceTrasTotales == {1909, 2818}

\* One year block as the handler draws it from currentY = y on page p.
Partes(ms, filas, p, y) ==
    LET yCabecera == y + mergedAnioHeaderHeight
        yFilas == yCabecera + headerRowHeight
        yTotal == yFilas + SumaAlturas(ms, Len(ms), filas)
    IN  {[tipo |-> "anio", id |-> NoId, pagina |-> p, y |-> y,
          alto |-> mergedAnioHeaderHeight],
         [tipo |-> "cabecera", id |-> NoId, pagina |-> p, y |-> yCabecera,
          alto |-> headerRowHeight],
         [tipo |-> "total", id |-> NoId, pagina |-> p, y |-> yTotal,
          alto |-> totalRowHeight]}
          \cup {[tipo |-> "materia", id |-> ms[k], pagina |-> p,
                 y |-> yFilas + SumaAlturas(ms, k - 1, filas), alto |-> filas[ms[k]].alto]
                : k \in 1..Len(ms)}

Desborda(partes) == \E q \in partes : q.y + q.alto > PageHeight - pageBottomMargin

\* GET /plan-estudio/:id up to the first year block: fetchPlanData and the titles.
PlanFetch ==
    /\ pdf.pc = "inicio"
    /\ LET plan == fetchPlanData(1, pdf.filas)
       IN  IF ~plan.encontrada
           THEN pdf' = [pdf EXCEPT !.pc = "404"]
           ELSE \E y0 \in InicioTablas :
                  pdf' = [pdf EXCEPT !.pc = "bloques", !.plan = plan,
                                     !.pendientes = EnOrden(plan.anios),
                                     !.pagina = 1, !.currentY = y0]
    /\ UNCHANGED <<administrador, admin_carrera, carrera, materia, horario, correlatividad,
                   resp, sesion, tokens>>

\* One turn of the loop over the years.
PlanBloque ==
    /\ pdf.pc = "bloques"
    /\ pdf.pendientes # <<>>
    /\ \E avance \in AvanceMoveDown02, sincronia \in AvanceTrasTotales :
         LET anio == Head(pdf.pendientes)
             ms == pdf.plan.materiasPorAnio[anio]
             materiasTotalHeight == SumaAlturas(ms, Len(ms), pdf.filas)
             blockHeight == mergedAnioHeaderHeight + headerHeight + materiasTotalHeight
                              + totalRowHeight
             totalSpaceNeeded == smallSpaceHeight + blockHeight + spaceAfterBlock
             salto == pdf.currentY + totalSpaceNeeded > PageHeight - pageBottomMargin
             pagina == IF salto THEN pdf.pagina + 1 ELSE pdf.pagina
             y == (IF salto THEN pageTopMargin ELSE pdf.currentY) + avance
             partes == Partes(ms, pdf.filas, pagina, y)
             totalRowY == y + mergedAnioHeaderHeight + headerRowHeight + materiasTotalHeight
         IN  pdf' = [pdf EXCEPT
                       !.pc = IF Desborda(partes) THEN "desbordado" ELSE "bloques",
                       !.pendientes = Tail(pdf.pendientes),
                       !.pagina = pagina,
                       !.currentY = totalRowY + sincronia,
                       !.bloque = [anio |-> anio, yAntes |-> pdf.currentY,
                                   necesario |-> totalSpaceNeeded, salto |-> salto,
                                   pagina |-> pagina, partes |-> partes,
                                   total |-> pdf.plan.totalHorasAnuales[anio]]]
    /\ UNCHANGED <<administrador, admin_carrera, carrera, materia, horario, correlatividad,
                   resp, sesion, tokens>>

\* The row 'TOTAL HORAS DE LA CARRERA' after the last block.
PlanTotalFinal ==
    /\ pdf.pc = "bloques"
    /\ pdf.pendientes = <<>>
    /\ LET salto == pdf.currentY + spaceForFinalTotal > PageHeight - pageBottomMargin
           pagina == IF salto THEN pdf.pagina + 1 ELSE pdf.pagina
           totalRowY == IF salto THEN pageTopMargin ELSE pdf.currentY
       IN  pdf' = [pdf EXCEPT
                     !.pc = "fin", !.pagina = pagina,
                     !.currentY = totalRowY + finalTotalRowHeight,
                     !.final = [pagina |-> pagina, y |-> totalRowY,
                                alto |-> finalTotalRowHeight,
                                total |-> pdf.plan.totalHorasCarrera]]
    /\ UNCHANGED <<administrador, admin_carrera, carrera, materia, horario, correlatividad,
                   resp, sesion, tokens>>

AlturasFila == {minRowHeight, 30000}
Anios == {1, 2}
FilasPlan == [anio : Anios, horas : Figuras, alto : AlturasFila]

\* Career 1, active or not, with subjects that are active or not; every subject
\* has a year, an annual hour figure and the height its row measures.
InitPlan ==
    /\ administrador =
         [a \in AdminIds |->
            [rol |-> IF a = 1 THEN "Rector" ELSE "Coordinador", estado |-> "activo",
             elim |-> NoId, telefono |-> "t0", contrasena |-> "h0"]]
    /\ admin_carrera = {}
    /\ \E e \in {"activa", "inactiva"} :
         carrera = [c \in CarreraIds |->
                      IF c = 1 THEN [estado |-> e, elim |-> NoId, nombre |-> "c0"]
                      ELSE [estado |-> NoRow, elim |-> NoId, nombre |-> "c0"]]
    /\ \E es \in [MateriaIds -> EstadosFila] :
         materia = [m \in MateriaIds |-> [id_carrera |-> 1, estado |-> es[m], elim |-> NoId]]
    /\ horario = [h \in HorarioIds |-> [id_materia |-> NoId, estado |-> NoRow, elim |-> NoId]]
    /\ correlatividad =
         [k \in CorrelatividadIds |->
            [principal |-> NoId, requisito |-> NoId, tipo |-> "Cursar",
             estado_requisito |-> "Regular", estado |-> NoRow, elim |-> NoId]]
    /\ resp = [op |-> "none", uid |-> NoId, status |-> 0, reason |-> "none", rows |-> {}]
    /\ sesion = [s \in SesionIds |-> Libre]
    /\ tokens = {}
    /\ \E filas \in [MateriaIds -> FilasPlan] : pdf = [SinPdf EXCEPT !.pc = "inicio", !.filas = filas]

NextPlan ==
    \/ PlanFetch
    \/ PlanBloque
    \/ PlanTotalFinal

SpecPlan == InitPlan /\ [][NextPlan]_vars

\* C25: a year block that does not fit below the current position starts on a
\* new page, and its year header, column header, subject rows and totals row
\* are all on one page above the bottom margin.
C25_BloqueEnUnaPagina ==
    pdf.bloque # <<>> =>
       /\ (pdf.bloque.yAntes + pdf.bloque.necesario > PageHeight - pageBottomMargin
             => pdf.bloque.salto)
       /\ \A q \in pdf.bloque.partes :
            /\ q.pagina = pdf.bloque.pagina
            /\ q.y >= pageTopMargin
            /\ q.y + q.alto <= PageHeight - pageBottomMargin

\* C26: a year's totals row is the sum of the numeric annual hour figures of the
\* year's active subjects, the others counting as zero, and the final row is the
\* sum of the year totals.
EsNumerica(v) ==
    \/ v.t = "number"
    \/ v.t = "string" /\ v.s # <<>> /\ \A i \in 1..Len(v.s) : EsDigito(v.s[i])

ValorNumerico(v) ==
    IF v.t = "number" THEN v.n ELSE IF EsNumerica(v) THEN LeerDigitos(v.s, 1, 0) ELSE 0

RECURSIVE SumaValores(_, _)
SumaValores(ids, filas) ==
    IF ids = {} THEN 0
    ELSE LET m == CHOOSE x \in ids : TRUE
         IN  ValorNumerico(filas[m].horas) + SumaValores(ids \ {m}, filas)

RECURSIVE SumaTotales(_, _)
SumaTotales(anios, totales) ==
    IF anios = {} THEN 0
    ELSE LET a == CHOOSE x \in anios : TRUE
         IN  totales[a] + SumaTotales(anios \ {a}, totales)

C26_TotalesDelPlan ==
    /\ pdf.bloque # <<>> =>
         pdf.bloque.total =
           SumaValores({m \in materiasRows(1) : pdf.filas[m].anio = pdf.bloque.anio},
                       pdf.filas)
    /\ pdf.final # <<>> =>
         pdf.final.total = SumaTotales(pdf.plan.anios, pdf.plan.totalHorasAnuales)

\* ---------------------------------------------------------------------- C27
\* C27: after any sequence of updateUserByAdmin and deleteUserByAdmin requests,
\* each made by an administrator who is active when it starts, at least one
\* administrator is a Rector with estado 'activo'.
C27_QuedaUnRectorActivo ==
    \E a \in AdminIds :
        administrador[a].rol = "Rector" /\ administrador[a].estado = "activo"

\* ------------------------------- soft-deletes of the detail tables, statement by statement
\* deleteMateria, deleteHorario and deleteCorrelatividad run their SELECT and
\* their UPDATE as two pool.query calls, with no transaction around them: a
\* request that passed its checks waits here for its UPDATE.
IniciarDeleteMateria(s) ==
    \E a \in AdminIds, id \in MateriaIds :
        Entrar(s, "deleteMateria", a, id, SinBody,
               Route(a, FALSE, deleteMateria(protect(a), id)), {"ok"}, "UPDATE materia")

IniciarDeleteHorario(s) ==
    \E a \in AdminIds, id \in HorarioIds :
        Entrar(s, "deleteHorario", a, id, SinBody,
               Route(a, FALSE, deleteHorario(protect(a), id)), {"ok"}, "UPDATE horario")

IniciarDeleteCorrelatividad(s) ==
    \E a \in AdminIds, id \in CorrelatividadIds :
        Entrar(s, "deleteCorrelatividad", a, id, SinBody,
               Route(a, FALSE, deleteCorrelatividad(protect(a), id)), {"ok"},
               "UPDATE correlatividad")

\* The reply after the UPDATE: 404 when it matched no row.
TerminarBaja(s, afectadas, tablas) ==
    /\ sesion' = [sesion EXCEPT ![s] =
                    [Libre EXCEPT !.pc = "fin", !.op = sesion[s].op, !.uid = sesion[s].uid,
                                  !.id = sesion[s].id, !.afectadas = afectadas,
                                  !.status = IF afectadas = 0 THEN 404 ELSE 200,
                                  !.reason = IF afectadas = 0 THEN "no-encontrada" ELSE "ok"]]
    /\ SetTablas(tablas)
    /\ UNCHANGED <<resp, tokens, pdf>>

\* UPDATE materia SET estado, fecha_eliminacion, id_administrador_eliminacion
\* WHERE id_materia = ?
DeleteMateriaUpdate(s) ==
    /\ sesion[s].op = "deleteMateria" /\ sesion[s].pc = "UPDATE materia"
    /\ LET id == sesion[s].id IN
       IF Existe(materia, id)
       THEN TerminarBaja(s, 1, [DB EXCEPT !.mat[id] = [@ EXCEPT !.estado = "inactiva",
                                                                 !.elim = sesion[s].uid]])
       ELSE TerminarBaja(s, 0, DB)

\* UPDATE horario SET ... WHERE id_horario = ? AND estado = 'activa'
DeleteHorarioUpdate(s) ==
    /\ sesion[s].op = "deleteHorario" /\ sesion[s].pc = "UPDATE horario"
    /\ LET id == sesion[s].id IN
       IF Existe(horario, id) /\ horario[id].estado = "activa"
       THEN TerminarBaja(s, 1, [DB EXCEPT !.hor[id] = [@ EXCEPT !.estado = "inactiva",
                                                                 !.elim = sesion[s].uid]])
       ELSE TerminarBaja(s, 0, DB)

\* UPDATE correlatividad SET ... WHERE id_correlatividad = ?
DeleteCorrelatividadUpdate(s) ==
    /\ sesion[s].op = "deleteCorrelatividad" /\ sesion[s].pc = "UPDATE correlatividad"
    /\ LET id == sesion[s].id IN
       IF Existe(correlatividad, id)
       THEN TerminarBaja(s, 1, [DB EXCEPT !.cor[id] = [@ EXCEPT !.estado = "inactiva",
                                                                 !.elim = sesion[s].uid]])
       ELSE TerminarBaja(s, 0, DB)

\* Career 1 with active subjects, a horario of subject 1 and the
\* correlatividad of subject 1 on the last subject, all active.
InitBajas ==
    /\ administrador =
         [a \in AdminIds |->
            [rol |-> IF a = 1 THEN "Rector" ELSE "Coordinador", estado |-> "activo",
             elim |-> NoId, telefono |-> "t0", contrasena |-> "h0"]]
    /\ admin_carrera = {<<NumAdmins, 1>>}
    /\ carrera = [c \in CarreraIds |->
                    IF c = 1 THEN [estado |-> "activa", elim |-> NoId, nombre |-> "c0"]
                    ELSE [estado |-> NoRow, elim |-> NoId, nombre |-> "c0"]]
    /\ materia = [m \in MateriaIds |-> [id_carrera |-> 1, estado |-> "activa", elim |-> NoId]]
    /\ horario = [h \in HorarioIds |-> [id_materia |-> 1, estado |-> "activa", elim |-> NoId]]
    /\ correlatividad =
         [k \in CorrelatividadIds |->
            [principal |-> 1, requisito |-> NumMaterias, tipo |-> "Cursar",
             estado_requisito |-> "Regular", estado |-> "activa", elim |-> NoId]]
    /\ resp = [op |-> "none", uid |-> NoId, status |-> 0, reason |-> "none", rows |-> {}]
    /\ sesion = [s \in SesionIds |-> Libre]
    /\ tokens = {}
    /\ pdf = SinPdf

NextBajas ==
    \E s \in SesionIds :
        \/ IniciarDeleteMateria(s)
        \/ DeleteMateriaUpdate(s)
        \/ IniciarDeleteHorario(s)
        \/ DeleteHorarioUpdate(s)
        \/ IniciarDeleteCorrelatividad(s)
        \/ DeleteCorrelatividadUpdate(s)

SpecBajas == InitBajas /\ [][NextBajas]_vars

\* ---------------------------------------------------------------------- C28
\* C28: of two concurrent soft-deletes of the same materia, horario or
\* correlatividad, at most one answers with success and at most one writes
\* the state and the audit fields.
DosBajas(s, o) ==
    /\ s # o
    /\ sesion[s].op \in {"deleteMateria", "deleteHorario", "deleteCorrelatividad"}
    /\ sesion[o].op = sesion[s].op
    /\ sesion[s].pc = "fin" /\ sesion[o].pc = "fin"
    /\ sesion[s].id # NoId /\ sesion[o].id = sesion[s].id

C28_UnaSolaBaja ==
    \A s, o \in SesionIds :
        DosBajas(s, o) =>
            /\ ~(sesion[s].status = 200 /\ sesion[o].status = 200)
            /\ ~(sesion[s].afectadas = 1 /\ sesion[o].afectadas = 1)

\* ---------------------------------------------------------------------- C29
\* C29: in every committed state every admin_carrera row names an
\* administrator whose rol is Coordinador and whose estado is 'activo'.
C29_AsignadoCoordinadorActivo ==
    \A x \in admin_carrera :
        /\ administrador[x[1]].rol = "Coordinador"
        /\ administrador[x[1]].estado = "activo"

\* ---------------------------------------------------------------------- C30
\* C30: an updateCarrera made by a Coordinador leaves the admin_carrera rows
\* of that career as they were, with or without id_coordinador in the body.
C30_CoordinadorNoReasigna ==
    \A a \in Coordinadores :
        \A c \in CarreraIds, body \in CarreraBodies :
            LET r == Route(a, FALSE, updateCarrera(protect(a), c, body)) IN
            {x \in r.db.ac : x[2] = c} = {x \in admin_carrera : x[2] = c}

====
